---- MODULE Spec2Model ----
(***************************************************************************)
(* A model of qlog (github.com/comradequinn/qlog): the severity gate, the  *)
(* line encoder of Log.log, the common-label encoder writeLabels, the      *)
(* default logger's setters and the shared write lock.                     *)
(*                                                                         *)
(* Text is modelled as a sequence of tokens.  A token is a string that the *)
(* code never looks inside: the quote character, the backslash, the        *)
(* separators of the two formats and whole words are tokens, so that       *)
(* concatenation, strings.ReplaceAll on the quote character and the        *)
(* position of every quote in a line are what they are in the code.        *)
(***************************************************************************)
EXTENDS Integers, Sequences, FiniteSets, TLC

VARIABLES
    defaultLog,   \* the process-wide default *Log (part_000:8)
    setLabels,    \* history: the label arguments behind defaultLog.commonLabels
    FatalFunc,    \* the termination hook: "exit" (os.Exit(1)) or "noop"
    now,          \* the clock read by timeNow
    mx,           \* the write lock: 0 when free, else the caller holding it
    sink,         \* the bytes each io.Writer has received
    pc,           \* each caller's position in its severity call
    frame,        \* each caller's arguments and locals
    invoked,      \* history: the thunks each caller's call has invoked, in order
    hooked,       \* history: how often each caller's call ran FatalFunc
    oob,          \* history: the call indexed its label slice out of bounds
    exited,       \* the process was terminated by os.Exit
    logs,         \* the Logs made with New and WithLabels, in the order of their making
    switched,     \* history: what the default logger was configured with, and the
                  \* labels the last SetOutputJSON discarded or the last SetLabels
                  \* replaced
    ctxs,         \* the calls of ContextFrom, in order, with the carriers they returned
    draws,        \* how many numbers were drawn from the random source of newSpanID
    panicked,     \* a call of ContextFrom panicked
    writes,       \* history: the Write calls of each caller's call, with their outcomes
    called,       \* history: the thunks New and WithLabels have invoked
    nested,       \* each caller's call of a label thunk that itself logs
    span,         \* each caller's position in newSpanID when callers run concurrently
    slice         \* the label slice of a caller that passes it with "..."

vars == <<defaultLog, setLabels, FatalFunc, now, mx, sink, pc, frame,
          invoked, hooked, oob, exited, logs, switched, ctxs, draws, panicked,
          writes, called, nested, span, slice>>

----------------------------------------------------------------------------
(* Bounds of the model *)

\* the number of concurrent callers of the concurrent specification
NProcs == 2

\* the number of Logs made with New and WithLabels
MaxLogs == 3

\* the number of calls of ContextFrom
MaxCtxs == 3

----------------------------------------------------------------------------
(* log.go:37-54 *)

OutputFlagNone == 0
OutputFlagFatal == 1
OutputFlagError == 2
OutputFlagWarning == 4
OutputFlagNotice == 8
OutputFlagInfo == 16
OutputFlagTrace == 32
OutputFlagDebug == 64

RECURSIVE BitOr(_, _)
BitOr(a, b) ==
    IF a = 0 THEN b
    ELSE IF b = 0 THEN a
    ELSE (IF a % 2 = 1 \/ b % 2 = 1 THEN 1 ELSE 0) + 2 * BitOr(a \div 2, b \div 2)

\* the mutant of BitAnd: a comparison of magnitudes instead of a bit test
BitAndAsThreshold(a, b) == IF a >= b THEN b ELSE 0

\* Go's & on non-negative ints
RECURSIVE BitAnd(_, _)
BitAnd(a, b) ==
    IF a = 0 \/ b = 0 THEN 0
    ELSE (IF a % 2 = 1 /\ b % 2 = 1 THEN 1 ELSE 0) + 2 * BitAnd(a \div 2, b \div 2)

OutputMaskImportant ==
    BitOr(BitOr(OutputFlagFatal, OutputFlagError), BitOr(OutputFlagWarning, OutputFlagNotice))
\* the mutant of OutputMaskDetail: the bit of Info is left out
OutputMaskDetailWithoutInfo == OutputMaskImportant

OutputMaskDetail == BitOr(OutputMaskImportant, OutputFlagInfo)
OutputMaskAll == BitOr(OutputMaskDetail, OutputFlagDebug)

----------------------------------------------------------------------------
(* Tokens *)

Q == "\""
BS == "\\"
NL == "\n"

\* log.go:64
TraceIDFieldName == "trace"

\* log.go:311-315 and log.go:402-406: the separators of the two formats
openLog(outputJSON) == IF outputJSON THEN <<"{ ", Q>> ELSE <<>>
closeLog(outputJSON) == IF outputJSON THEN <<" }">> ELSE <<>>
openField(outputJSON) == IF outputJSON THEN <<", ", Q>> ELSE <<" ">>
closeField(outputJSON) == IF outputJSON THEN <<Q, ": ">> ELSE <<"=">>

----------------------------------------------------------------------------
(* Values of type any, as the type switches of log and writeLabels see     *)
(* them: kind is the dynamic type; s is the text of a string, of a         *)
(* Stringer's String() or of a value of any other type under %v; n is the  *)
(* number of an int or uint, 0/1 of a bool and thousandths of a float; a   *)
(* func() T carries the value it returns and the identity id.              *)

Val(kind, s, n, id) == [kind |-> kind, s |-> s, n |-> n, id |-> id]
StrV(w) == Val("string", <<w>>, 0, 0)
IntV(n) == Val("int", <<>>, n, 0)
UintV(n) == Val("uint", <<>>, n, 0)
BoolV(b) == Val("bool", <<>>, IF b THEN 1 ELSE 0, 0)
Float32V(m) == Val("float32", <<>>, m, 0)
Float64V(m) == Val("float64", <<>>, m, 0)
StringerV(w) == Val("Stringer", <<w>>, 0, 0)
OtherV(w) == Val("other", <<w>>, 0, 0)
FuncString(id, w) == Val("func() string", <<w>>, 0, id)
FuncInt(id, n) == Val("func() int", <<>>, n, id)
FuncUint(id, n) == Val("func() uint", <<>>, n, id)
FuncBool(id, b) == Val("func() bool", <<>>, IF b THEN 1 ELSE 0, id)
FuncFloat32(id, m) == Val("func() float32", <<>>, m, id)
FuncFloat64(id, m) == Val("func() float64", <<>>, m, id)

LazyKinds ==
    {"func() string", "func() int", "func() uint", "func() bool",
     "func() float32", "func() float64"}

\* strconv.Itoa and strconv.FormatUint(_, 10)
Itoa(n) == <<ToString(n)>>

\* strconv.FormatBool
FormatBool(n) == IF n = 1 THEN <<"true">> ELSE <<"false">>

\* strconv.FormatFloat(v, 'f', 2, 64) of m thousandths, m >= 0 (no input of the
\* model lies half way between two hundredths)
FormatFloat(m) ==
    LET h == (m + 5) \div 10
        frac == h % 100
    IN  <<ToString(h \div 100) \o "." \o (IF frac < 10 THEN "0" ELSE "") \o ToString(frac)>>

\* fmt.Sprintf("%v", x)
Sprintv(x) ==
    CASE x.kind \in {"string", "Stringer", "other"} -> x.s
      [] x.kind \in {"int", "uint"} -> Itoa(x.n)
      [] x.kind = "bool" -> FormatBool(x.n)
      [] x.kind \in {"float32", "float64"} ->
            LET whole == ToString(x.n \div 1000)
                f == x.n % 1000
            IN  IF f = 0 THEN <<whole>>
                ELSE IF f % 100 = 0 THEN <<whole \o "." \o ToString(f \div 100)>>
                ELSE IF f % 10 = 0
                    THEN <<whole \o "." \o (IF f < 100 THEN "0" ELSE "") \o ToString(f \div 10)>>
                ELSE <<whole \o "." \o (IF f < 10 THEN "00" ELSE IF f < 100 THEN "0" ELSE "")
                        \o ToString(f)>>
      [] OTHER -> <<"0xfunc" \o ToString(x.id)>>

\* the sentinel of log.go:338 and log.go:399
Missing == StrV("#missing#")

----------------------------------------------------------------------------
(* The encoders *)

\* log.go:416-433: the type switch of writeLabels; a func() T has no case of
\* its own here and is rendered by %v
commonValue(v) ==
    CASE v.kind = "string" -> <<Q>> \o v.s \o <<Q>>
      [] v.kind \in {"int", "uint"} -> Itoa(v.n)
      [] v.kind = "bool" -> FormatBool(v.n)
      [] v.kind \in {"float32", "float64"} -> FormatFloat(v.n)
      [] v.kind = "Stringer" -> v.s
      [] OTHER -> Sprintv(v)

\* log.go:397-400
\* the mutant of balance: the sentinel is never appended
balanceNever(labels) == labels

balance(labels) == IF Len(labels) % 2 # 0 THEN Append(labels, Missing) ELSE labels

\* log.go:408-436: the loop of writeLabels from index i (1-based) on
RECURSIVE writeLabelsFrom(_, _, _)
writeLabelsFrom(outputJSON, labels, i) ==
    IF i > Len(labels) THEN <<>>
    ELSE IF labels[i].kind # "string" THEN writeLabelsFrom(outputJSON, labels, i + 2)
    ELSE IF i + 1 > Len(labels) THEN <<"panic: index out of range">>
    ELSE openField(outputJSON) \o labels[i].s \o closeField(outputJSON)
            \o commonValue(labels[i + 1])
            \o writeLabelsFrom(outputJSON, labels, i + 2)

\* log.go:397-437
writeLabels(outputJSON, labels) == writeLabelsFrom(outputJSON, balance(labels), 1)

\* the mutant of commonLazyKinds: writeLabels has the func() T cases of log
commonLazyKindsAsInLog == LazyKinds

\* log.go:416-433: the func() T cases of the type switch of writeLabels, which
\* are the values writeLabels calls: there is none
commonLazyKinds == {}

\* log.go:408-436: the thunks the loop of writeLabels calls from index i on
RECURSIVE writeLabelsCallsFrom(_, _)
writeLabelsCallsFrom(labels, i) ==
    IF i + 1 > Len(labels) THEN <<>>
    ELSE (IF labels[i].kind = "string" /\ labels[i + 1].kind \in commonLazyKinds
            THEN <<labels[i + 1].id>> ELSE <<>>)
            \o writeLabelsCallsFrom(labels, i + 2)

\* log.go:397-437: the thunks writeLabels calls
writeLabelsCalls(labels) == writeLabelsCallsFrom(balance(labels), 1)

\* the mutant of logValue: the type switch has no case for a func() T
logValueWithoutLazyCases(v) == commonValue(v)

\* log.go:348-378: the type switch of log
logValue(v) ==
    CASE v.kind \in {"string", "func() string"} -> <<Q>> \o v.s \o <<Q>>
      [] v.kind \in {"int", "uint", "func() int", "func() uint"} -> Itoa(v.n)
      [] v.kind \in {"bool", "func() bool"} -> FormatBool(v.n)
      [] v.kind \in {"float32", "float64", "func() float32", "func() float64"} ->
            FormatFloat(v.n)
      [] v.kind = "Stringer" -> v.s
      [] OTHER -> Sprintv(v)

\* log.go:342-346
logKey(k) == IF k.kind = "string" THEN k.s ELSE Sprintv(k)

\* log.go:341-381: the loop of log from index i (1-based) on, over the slice as
\* it is after log.go:337-339.  out is what is appended to b, thunks the
\* func() T values called, in order, and oob whether labels[i+1] lay outside
\* the slice.
RECURSIVE logLabelsFrom(_, _, _)
logLabelsFrom(outputJSON, labels, i) ==
    IF i > Len(labels) THEN [out |-> <<>>, thunks |-> <<>>, oob |-> FALSE]
    ELSE IF i + 1 > Len(labels) THEN [out |-> <<>>, thunks |-> <<>>, oob |-> TRUE]
    ELSE LET rest == logLabelsFrom(outputJSON, labels, i + 2)
             v == labels[i + 1]
         IN  [out |-> openField(outputJSON) \o logKey(labels[i]) \o closeField(outputJSON)
                        \o logValue(v) \o rest.out,
              thunks |-> (IF v.kind \in LazyKinds THEN <<v.id>> ELSE <<>>) \o rest.thunks,
              oob |-> rest.oob]

\* the mutant of logLabels: every func() T is called a second time
logLabelsTwice(outputJSON, labels) ==
    LET r == logLabelsFrom(outputJSON, balance(labels), 1)
    IN  [r EXCEPT !.thunks = @ \o @]

\* log.go:337-381
logLabels(outputJSON, labels) == logLabelsFrom(outputJSON, balance(labels), 1)

\* strings.ReplaceAll(s, `"`, `\"`), guarded by strings.Contains (log.go:326-328, 385-387)
\* the mutant of escapeQuotes: the text is copied as it is
escapeQuotesNot(s) == s

RECURSIVE escapeQuotes(_)
escapeQuotes(s) ==
    IF s = <<>> THEN <<>>
    ELSE (IF Head(s) = Q THEN <<BS, Q>> ELSE <<Head(s)>>) \o escapeQuotes(Tail(s))

----------------------------------------------------------------------------
(* Log, New, WithLabels, the context carrier *)

Stderr == "stderr"

\* log.go:116-123
New(outputMask, outputJSON, labels) ==
    [outputMask |-> outputMask, outputJSON |-> outputJSON,
     commonLabels |-> writeLabels(outputJSON, labels), Writer |-> Stderr]

\* the mutant of WithLabels: the fragment of the receiver is left behind
WithLabelsOnlyNew(l, labels) ==
    [outputMask |-> l.outputMask, outputJSON |-> FALSE,
     commonLabels |-> writeLabels(l.outputJSON, labels),
     Writer |-> l.Writer]

\* log.go:130-137: the composite literal sets no outputJSON, which is then false
WithLabels(l, labels) ==
    [outputMask |-> l.outputMask, outputJSON |-> FALSE,
     commonLabels |-> l.commonLabels \o writeLabels(l.outputJSON, labels),
     Writer |-> l.Writer]

\* A context.Context is nil, or the chain of Trace-IDs attached to it by
\* ContextFrom, the newest last; a Trace-ID is text; context.Background() is
\* the empty chain.
NilContext == [nil |-> TRUE, ids |-> <<>>]
Background == [nil |-> FALSE, ids |-> <<>>]

\* context.WithValue(ctx, traceIDKey, traceID) (log.go:111)
WithValue(ctx, traceID) == [nil |-> FALSE, ids |-> Append(ctx.ids, traceID)]

\* the mutant of TraceID: the Trace-ID attached first is the one returned
TraceIDOldest(ctx) == IF ctx.ids = <<>> THEN <<>> ELSE ctx.ids[1]

\* log.go:72-76: the text of the Trace-ID, empty when none is attached
TraceID(ctx) == IF ctx.ids = <<>> THEN <<>> ELSE ctx.ids[Len(ctx.ids)]

\* a carrier that a caller was handed with the Trace-ID id1 attached
Ctx1 == WithValue(Background, <<"id1">>)

\* A number r.Int() returns, as its three limbs to the base 10^9: a * 10^18 +
\* b * 10^9 + c.  r.Int() is a non-negative int of 63 bits.
Int63(a, b, c) == [a |-> a, b |-> b, c |-> c]
MaxInt63 == Int63(9, 223372036, 854775807)

\* the decimal digits of n, one character each
RECURSIVE Digits(_)
Digits(n) == IF n < 10 THEN <<ToString(n)>> ELSE Digits(n \div 10) \o <<ToString(n % 10)>>

\* the nine decimal digits of a limb below the leading one
Limb(n) == [i \in 1 .. 9 - Len(Digits(n)) |-> "0"] \o Digits(n)

\* strconv.Itoa of a number of 63 bits, one character each (log.go:92)
Itoa63(v) ==
    IF v.a > 0 THEN Digits(v.a) \o Limb(v.b) \o Limb(v.c)
    ELSE IF v.b > 0 THEN Digits(v.b) \o Limb(v.c)
    ELSE Digits(v.c)

\* log.go:89: nineteen characters
pad == [i \in 1 .. 19 |-> "X"]

\* the mutant of newSpanID: the padded text is not cut to the width of pad
newSpanIDUncut(v) == Itoa63(v) \o pad

\* log.go:91-93, for the number v that r.Int() returned
newSpanID(v) == SubSeq(Itoa63(v) \o pad, 1, Len(pad))

\* the mutant of ContextFrom: the Trace-ID is drawn before the carrier is looked at
ContextFromDrawFirst(ctx, traceID, v) ==
    LET id == IF traceID = <<>> THEN newSpanID(v) ELSE traceID
    IN  [panic |-> ctx.nil, drew |-> traceID = <<>>,
         ctx |-> IF ctx.nil THEN NilContext ELSE WithValue(ctx, id)]

\* log.go:102-112, v being the number r.Int() returns if it is asked: whether
\* the call panics, whether a number was drawn, and the carrier returned
ContextFrom(ctx, traceID, v) ==
    IF ctx.nil THEN [panic |-> TRUE, drew |-> FALSE, ctx |-> NilContext]
    ELSE IF traceID = <<>>
        THEN [panic |-> FALSE, drew |-> TRUE, ctx |-> WithValue(ctx, newSpanID(v))]
    ELSE [panic |-> FALSE, drew |-> FALSE, ctx |-> WithValue(ctx, traceID)]

\* timeNow().UTC().AppendFormat(b, TimestampFormat) for the clock value t (log.go:320)
Timestamp(t) == <<"T" \o ToString(t)>>

\* an error value: nil, or one whose Error() is text
NilErr == [nil |-> TRUE, text |-> <<>>]
Err(text) == [nil |-> FALSE, text |-> text]

----------------------------------------------------------------------------
(* The callers *)

Procs == 1 .. NProcs

Writers == {Stderr, "buf"}

NoFrame ==
    [op |-> "", l |-> New(0, FALSE, <<>>), ctx |-> Background,
     severity |-> "", message |-> <<>>, err |-> NilErr, args |-> <<>>, labels |-> <<>>,
     ts |-> 0, b |-> <<>>]

\* no call of a thunk that logs
NoCall == [phase |-> "none", saved |-> NoFrame]

\* no call of newSpanID
NoSpan == [at |-> "idle", seen |-> 0, raced |-> FALSE, panic |-> FALSE, id |-> <<>>]

\* no caller has a label slice of its own
NoSlice == [arr |-> <<>>, view |-> [p \in Procs |-> [shared |-> FALSE, len |-> 0]]]

\* the state after package initialisation: part_000:8, log.go:80, log.go:84
InitCommon ==
    /\ defaultLog = New(OutputMaskAll, TRUE, <<>>)
    /\ setLabels = <<>>
    /\ now = 0
    /\ mx = 0
    /\ sink = [w \in Writers |-> <<>>]
    /\ pc = [p \in Procs |-> "idle"]
    /\ frame = [p \in Procs |-> NoFrame]
    /\ invoked = [p \in Procs |-> <<>>]
    /\ hooked = [p \in Procs |-> 0]
    /\ oob = [p \in Procs |-> FALSE]
    /\ exited = FALSE
    /\ logs = <<>>
    /\ switched = [done |-> FALSE, labels |-> <<>>, json |-> TRUE,
                   mask |-> OutputMaskAll, Writer |-> Stderr]
    /\ ctxs = <<>>
    /\ draws = 0
    /\ panicked = FALSE
    /\ writes = [p \in Procs |-> <<>>]
    /\ called = <<>>
    /\ nested = [p \in Procs |-> NoCall]
    /\ span = [p \in Procs |-> NoSpan]
    /\ slice = NoSlice

\* no caller has entered a severity call yet: the start-up phase, in which
\* alone the default logger is reconfigured (part_000:11, 17, 23, 32)
StartUp == \A p \in Procs : pc[p] = "idle"

\* log.go:155, 180, 205, 229, 253, 277, 301: l.outputMask&flag == 0
gateClosed(outputMask, flag) == BitAnd(outputMask, flag) = 0

\* The entry of a severity method of l: the gate, and on passing it the call
\* of l.log with the labels the method hands over; args are the labels the
\* caller supplied.
Enter(p, op, flag, severity, l, ctx, message, err, args, labels) ==
    /\ ~exited
    /\ pc[p] = "idle"
    /\ LET open == ~gateClosed(l.outputMask, flag)
       IN  /\ frame' = [frame EXCEPT ![p] =
                    [op |-> op, l |-> l, ctx |-> ctx,
                     severity |-> severity, message |-> message, err |-> err,
                     args |-> args, labels |-> labels, ts |-> 0, b |-> <<>>]]
           /\ pc' = [pc EXCEPT ![p] = IF open THEN "log" ELSE "done"]
    /\ UNCHANGED <<logs, switched, ctxs, draws, panicked, defaultLog, setLabels, FatalFunc, now, mx, sink, invoked, hooked,
                   oob, exited,
                   writes, called, nested, span, slice>>

\* log.go:154-159
Fatal(p, l, ctx, message, err, labels) ==
    Enter(p, "Fatal", OutputFlagFatal, "FATAL", l, ctx, message, err, labels, labels)

\* log.go:179-185
Error(p, l, ctx, message, err, labels) ==
    Enter(p, "Error", OutputFlagError, "ERROR", l, ctx, message, err, labels, labels)

\* log.go:204-210
Warning(p, l, ctx, message, err, labels) ==
    Enter(p, "Warning", OutputFlagWarning, "WARNING", l, ctx, message, err, labels, labels)

\* log.go:228-234
Notice(p, l, ctx, message, labels) ==
    Enter(p, "Notice", OutputFlagNotice, "NOTICE", l, ctx, message, NilErr, labels, labels)

\* log.go:252-258
Info(p, l, ctx, message, labels) ==
    Enter(p, "Info", OutputFlagInfo, "INFO", l, ctx, message, NilErr, labels, labels)

\* log.go:276-282
Trace(p, l, ctx, message, labels) ==
    Enter(p, "Trace", OutputFlagTrace, "DEBUG", l, ctx, message, NilErr, labels,
          labels \o <<StrV("trace"), BoolV(TRUE)>>)

\* log.go:300-306
Debug(p, l, ctx, message, labels) ==
    Enter(p, "Debug", OutputFlagDebug, "DEBUG", l, ctx, message, NilErr, labels, labels)

\* the mutant of header: the severity field is written before the trace field
headerSeverityFirst(f, t) ==
    LET j == f.l.outputJSON
    IN  openLog(j) \o <<"severity">> \o closeField(j) \o <<Q, f.severity>>
        \o <<Q>> \o openField(j) \o <<TraceIDFieldName>> \o closeField(j) \o <<Q>>
        \o TraceID(f.ctx)
        \o <<Q>> \o openField(j) \o <<"timestamp">> \o closeField(j) \o <<Q>>
        \o Timestamp(t)
        \o <<Q>>

\* the mutant of header: the Trace-ID of the carrier is not looked up
headerWithoutTraceID(f, t) ==
    LET j == f.l.outputJSON
    IN  openLog(j) \o <<TraceIDFieldName>> \o closeField(j) \o <<Q>>
        \o <<Q>> \o openField(j) \o <<"severity">> \o closeField(j) \o <<Q, f.severity>>
        \o <<Q>> \o openField(j) \o <<"timestamp">> \o closeField(j) \o <<Q>>
        \o Timestamp(t)
        \o <<Q>>

\* log.go:317-321: the trace, severity and timestamp fields for the clock value t
header(f, t) ==
    LET j == f.l.outputJSON
    IN  openLog(j) \o <<TraceIDFieldName>> \o closeField(j) \o <<Q>> \o TraceID(f.ctx)
        \o <<Q>> \o openField(j) \o <<"severity">> \o closeField(j) \o <<Q, f.severity>>
        \o <<Q>> \o openField(j) \o <<"timestamp">> \o closeField(j) \o <<Q>>
        \o Timestamp(t)
        \o <<Q>>

\* log.go:323-331
errorField(f) ==
    LET j == f.l.outputJSON
    IN  IF f.err.nil THEN <<>>
        ELSE <<Q>> \o openField(j) \o <<"error">> \o closeField(j) \o <<Q>>
                \o escapeQuotes(f.err.text) \o <<Q>>

\* log.go:309-333: the clock is read once and advances with every reading
LogHeader(p) ==
    /\ ~exited
    /\ pc[p] = "log"
    /\ frame' = [frame EXCEPT ![p].ts = now,
                              ![p].b = header(frame[p], now) \o errorField(frame[p])
                                        \o frame[p].l.commonLabels]
    /\ now' = now + 1
    /\ pc' = [pc EXCEPT ![p] = "labels"]
    /\ UNCHANGED <<logs, switched, ctxs, draws, panicked, defaultLog, setLabels, FatalFunc, mx, sink, invoked, hooked, oob, exited,
                   writes, called, nested, span, slice>>

\* a func() string whose body makes a severity call before it returns w
FuncStringLogging(id, w) == Val("func() string", <<w>>, 1, id)

\* the labels hold a thunk whose body logs
HasLogging(labels) ==
    \E i \in 1 .. Len(labels) :
        i % 2 = 0 /\ labels[i].kind = "func() string" /\ labels[i].n = 1

\* the labels slice of log: the caller's own array when the call was made
\* with "..." and no append has moved the labels to a new array
labelsOf(p) ==
    IF slice.view[p].shared THEN SubSeq(slice.arr, 1, slice.view[p].len)
    ELSE frame[p].labels

\* log.go:337-339: append(labels, "#missing#") stores into the array of the
\* slice when it has capacity left, and into a new array otherwise
storeMissing(p) ==
    LET v == slice.view[p]
    IN  IF v.shared /\ v.len % 2 # 0 /\ v.len < Len(slice.arr)
        THEN [slice EXCEPT !.arr[v.len + 1] = Missing]
        ELSE slice

\* log.go:337-381; a thunk whose body logs is called by CallThunk before
LogLabels(p) ==
    /\ ~exited
    /\ pc[p] = "labels"
    /\ ~(nested[p].phase = "none" /\ HasLogging(labelsOf(p)))
    /\ LET r == logLabels(frame[p].l.outputJSON, labelsOf(p))
       IN  /\ frame' = [frame EXCEPT ![p].b = @ \o r.out, ![p].labels = labelsOf(p)]
           /\ invoked' = [invoked EXCEPT ![p] = @ \o r.thunks]
           /\ oob' = [oob EXCEPT ![p] = r.oob]
    /\ slice' = storeMissing(p)
    /\ pc' = [pc EXCEPT ![p] = "message"]
    /\ UNCHANGED <<logs, switched, ctxs, draws, panicked, defaultLog, setLabels, FatalFunc, now, mx, sink, hooked, exited,
                   writes, called, nested, span>>

\* log.go:383-390
messageField(f) ==
    LET j == f.l.outputJSON
    IN  openField(j) \o <<"message">> \o closeField(j) \o <<Q>>
        \o escapeQuotes(f.message)
        \o <<Q>> \o closeLog(j) \o <<NL>>

\* log.go:383-390
LogMessage(p) ==
    /\ ~exited
    /\ pc[p] = "message"
    /\ frame' = [frame EXCEPT ![p].b = @ \o messageField(frame[p])]
    /\ pc' = [pc EXCEPT ![p] = "lock"]
    /\ UNCHANGED <<logs, switched, ctxs, draws, panicked, defaultLog, setLabels, FatalFunc, now, mx, sink, invoked, hooked,
                   oob, exited,
                   writes, called, nested, span, slice>>

\* the mutant of lockFree: the lock never excludes anyone
lockFreeAlways(m) == TRUE

\* sync.Mutex: Lock returns only when no one holds the lock
lockFree(m) == m = 0

\* log.go:392
Lock(p) ==
    /\ ~exited
    /\ pc[p] = "lock"
    /\ lockFree(mx)
    /\ mx' = p
    /\ pc' = [pc EXCEPT ![p] = "write"]
    /\ UNCHANGED <<logs, switched, ctxs, draws, panicked, defaultLog, setLabels, FatalFunc, now, sink, frame, invoked, hooked,
                   oob, exited,
                   writes, called, nested, span, slice>>

\* the part of b a Writer has taken when another goroutine can next run
firstPart(b) == SubSeq(b, 1, Len(b) \div 2)
secondPart(b) == SubSeq(b, Len(b) \div 2 + 1, Len(b))

\* the mutant of afterWrite: a Write that failed is made again
afterWriteRetry(outcome) == IF outcome = "ok" THEN "unlock" ELSE "write"

\* log.go:394-395: the count and the error Write returns are dropped, and log
\* returns through the deferred Unlock whatever they were
afterWrite(outcome) == "unlock"

\* log.go:394: l.Writer.Write(b), begun
WriteBegin(p) ==
    /\ ~exited
    /\ pc[p] = "write"
    /\ sink' = [sink EXCEPT ![frame[p].l.Writer] = @ \o firstPart(frame[p].b)]
    /\ writes' = [writes EXCEPT ![p] = Append(@, "begun")]
    /\ pc' = [pc EXCEPT ![p] = "writing"]
    /\ UNCHANGED <<logs, switched, ctxs, draws, panicked, defaultLog, setLabels, FatalFunc, now, mx, frame, invoked, hooked,
                   oob, exited,
                   called, nested, span, slice>>

\* log.go:394: l.Writer.Write(b), completed
WriteEnd(p) ==
    /\ ~exited
    /\ pc[p] = "writing"
    /\ sink' = [sink EXCEPT ![frame[p].l.Writer] = @ \o secondPart(frame[p].b)]
    /\ writes' = [writes EXCEPT ![p][Len(writes[p])] = "ok"]
    /\ pc' = [pc EXCEPT ![p] = afterWrite("ok")]
    /\ UNCHANGED <<logs, switched, ctxs, draws, panicked, defaultLog, setLabels, FatalFunc, now, mx, frame, invoked, hooked,
                   oob, exited,
                   called, nested, span, slice>>

\* the mutant of afterLog: Fatal returns without calling FatalFunc
afterLogReturn(op) == "done"

\* log.go:159-161 against 184-185: where a method goes on when log has returned
afterLog(op) == IF op = "Fatal" THEN "fatal" ELSE "done"

\* the mutant of Unlock: log returns and the lock stays held
UnlockKeepsLock(p) ==
    /\ ~exited
    /\ pc[p] = "unlock"
    /\ pc' = [pc EXCEPT ![p] = afterLog(frame[p].op)]
    /\ UNCHANGED <<logs, switched, ctxs, draws, panicked, defaultLog, setLabels, FatalFunc,
                   now, mx, sink, frame, invoked, hooked, oob, exited,
                   writes, called, nested, span, slice>>

\* log.go:393, 395: the deferred mx.Unlock() and the return of log
Unlock(p) ==
    /\ ~exited
    /\ pc[p] = "unlock"
    /\ mx' = 0
    /\ pc' = [pc EXCEPT ![p] = afterLog(frame[p].op)]
    /\ UNCHANGED <<logs, switched, ctxs, draws, panicked, defaultLog, setLabels, FatalFunc, now, sink, frame, invoked, hooked,
                   oob, exited,
                   writes, called, nested, span, slice>>

\* log.go:160 with log.go:80: FatalFunc()
CallFatalFunc(p) ==
    /\ ~exited
    /\ pc[p] = "fatal"
    /\ hooked' = [hooked EXCEPT ![p] = @ + 1]
    /\ exited' = (FatalFunc = "exit")
    /\ pc' = [pc EXCEPT ![p] = IF FatalFunc = "exit" THEN "fatal" ELSE "done"]
    /\ UNCHANGED <<logs, switched, ctxs, draws, panicked, defaultLog, setLabels, FatalFunc, now, mx, sink, frame, invoked, oob,
                   writes, called, nested, span, slice>>

\* the steps of a call that has passed its gate
Step(p) ==
    \/ LogHeader(p)
    \/ LogLabels(p)
    \/ LogMessage(p)
    \/ Lock(p)
    \/ WriteBegin(p)
    \/ WriteEnd(p)
    \/ Unlock(p)
    \/ CallFatalFunc(p)

----------------------------------------------------------------------------
(* The configuration of the default logger (part_000) *)

\* part_000:12-14
SetWriter(w) ==
    /\ StartUp /\ ~exited
    /\ defaultLog' = [defaultLog EXCEPT !.Writer = w]
    /\ switched' = [switched EXCEPT !.Writer = w]
    /\ UNCHANGED <<logs, ctxs, draws, panicked, setLabels, FatalFunc, now, mx, sink, pc, frame, invoked, hooked,
                   oob, exited,
                   writes, called, nested, span, slice>>

\* part_000:18-20
SetOutputMask(m) ==
    /\ StartUp /\ ~exited
    /\ defaultLog' = [defaultLog EXCEPT !.outputMask = m]
    /\ switched' = [switched EXCEPT !.mask = m]
    /\ UNCHANGED <<logs, ctxs, draws, panicked, setLabels, FatalFunc, now, mx, sink, pc, frame, invoked, hooked,
                   oob, exited,
                   writes, called, nested, span, slice>>

\* the mutant of SetOutputJSON: the format is changed in place and the
\* fragment of the labels set before is kept
SetOutputJSONInPlace(v) ==
    /\ StartUp /\ ~exited
    /\ defaultLog' = [defaultLog EXCEPT !.outputJSON = v]
    /\ setLabels' = <<>>
    /\ switched' = [switched EXCEPT !.done = TRUE, !.json = v,
                                    !.labels = IF setLabels = <<>> THEN @ ELSE setLabels]
    /\ UNCHANGED <<logs, ctxs, draws, panicked, FatalFunc, now, mx, sink, pc, frame, invoked,
                   hooked, oob, exited,
                   writes, called, nested, span, slice>>

\* part_000:25-29
SetOutputJSON(v) ==
    /\ StartUp /\ ~exited
    /\ defaultLog' = [New(defaultLog.outputMask, v, <<>>) EXCEPT !.Writer = defaultLog.Writer]
    /\ setLabels' = <<>>
    /\ switched' = [switched EXCEPT !.done = TRUE, !.json = v,
                                    !.labels = IF setLabels = <<>> THEN @ ELSE setLabels]
    /\ UNCHANGED <<logs, ctxs, draws, panicked, FatalFunc, now, mx, sink, pc, frame, invoked, hooked, oob, exited,
                   writes, called, nested, span, slice>>

\* the mutant of SetLabels: the labels are added to those set before
SetLabelsAccumulating(labels) ==
    /\ StartUp /\ ~exited
    /\ defaultLog' = [defaultLog EXCEPT
                        !.commonLabels = @ \o writeLabels(defaultLog.outputJSON, labels)]
    /\ setLabels' = labels
    /\ switched' = [switched EXCEPT !.done = FALSE,
                                    !.labels = IF setLabels # labels THEN setLabels ELSE <<>>]
    /\ called' = called \o writeLabelsCalls(labels)
    /\ UNCHANGED <<logs, ctxs, draws, panicked, FatalFunc, now, mx, sink, pc, frame, invoked,
                   hooked, oob, exited, writes, nested, span, slice>>

\* part_000:33-37
SetLabels(labels) ==
    /\ StartUp /\ ~exited
    /\ defaultLog' = [New(defaultLog.outputMask, defaultLog.outputJSON, labels)
                        EXCEPT !.Writer = defaultLog.Writer]
    /\ setLabels' = labels
    /\ switched' = [switched EXCEPT !.done = FALSE,
                                    !.labels = IF setLabels # labels THEN setLabels ELSE <<>>]
    /\ called' = called \o writeLabelsCalls(labels)
    /\ UNCHANGED <<logs, ctxs, draws, panicked, FatalFunc, now, mx, sink, pc, frame, invoked, hooked, oob, exited,
                   writes, nested, span, slice>>

\* log.go:77-80: FatalFunc is an exported variable; part_001:111 replaces it
SetFatalFunc(f) ==
    /\ StartUp /\ ~exited
    /\ FatalFunc' = f
    /\ UNCHANGED <<logs, switched, ctxs, draws, panicked, defaultLog, setLabels, now, mx, sink, pc, frame, invoked, hooked,
                   oob, exited,
                   writes, called, nested, span, slice>>

----------------------------------------------------------------------------
(* The inputs *)

\* masks: none, each flag alone, the presets, and every flag
Masks ==
    {OutputFlagNone, OutputFlagFatal, OutputFlagError, OutputFlagWarning,
     OutputFlagNotice, OutputFlagInfo, OutputFlagTrace, OutputFlagDebug,
     OutputMaskImportant, OutputMaskDetail, OutputMaskAll,
     BitOr(OutputMaskAll, OutputFlagTrace)}

Messages == {<<"boom">>, <<"say", Q, "hi", Q>>}

Errs == {NilErr, Err(<<"io failure">>), Err(<<Q, "x", Q, "failed">>)}

Ctxs == {Background, Ctx1}

\* call-site labels: none, a pair, a lone key, lazy values, a trace key of the
\* caller's own, a key that is no string before a lone key, a lazy value
\* before a lone key
CallLabels ==
    {<<>>,
     <<StrV("k"), StrV("v")>>,
     <<StrV("k")>>,
     <<StrV("n"), IntV(2), StrV("lazy"), FuncString(1, "lv"), StrV("cnt"), FuncInt(2, 4)>>,
     <<StrV("trace"), BoolV(FALSE)>>,
     <<IntV(7), Float64V(3142), StrV("k")>>,
     <<StrV("on"), FuncBool(3, TRUE), StrV("odd")>>}

\* common labels: none, a pair, and a key that is no string, then a pair with
\* a func() string as its value, then a lone key
CommonLabels ==
    {<<>>,
     <<StrV("common"), BoolV(TRUE)>>,
     <<IntV(1), StrV("x"), StrV("c"), FuncString(9, "z"), StrV("ver")>>}

----------------------------------------------------------------------------
(* The sequential specification: the default logger is configured, then    *)
(* caller 1 makes one call of a package-level severity function            *)
(* (part_000:54-177), which calls the method of defaultLog.                *)

Init == InitCommon /\ FatalFunc = "exit"

Next ==
    \/ \E m \in Masks : SetOutputMask(m)
    \/ \E v \in BOOLEAN : SetOutputJSON(v)
    \/ \E labels \in CommonLabels : SetLabels(labels)
    \/ \E f \in {"exit", "noop"} : SetFatalFunc(f)
    \/ \E ctx \in Ctxs, message \in Messages, err \in Errs, labels \in CallLabels :
            Fatal(1, defaultLog, ctx, message, err, labels)
    \/ \E ctx \in Ctxs, message \in Messages, err \in Errs, labels \in CallLabels :
            Error(1, defaultLog, ctx, message, err, labels)
    \/ \E ctx \in Ctxs, message \in Messages, err \in Errs, labels \in CallLabels :
            Warning(1, defaultLog, ctx, message, err, labels)
    \/ \E ctx \in Ctxs, message \in Messages, labels \in CallLabels :
            Notice(1, defaultLog, ctx, message, labels)
    \/ \E ctx \in Ctxs, message \in Messages, labels \in CallLabels :
            Info(1, defaultLog, ctx, message, labels)
    \/ \E ctx \in Ctxs, message \in Messages, labels \in CallLabels :
            Trace(1, defaultLog, ctx, message, labels)
    \/ \E ctx \in Ctxs, message \in Messages, labels \in CallLabels :
            Debug(1, defaultLog, ctx, message, labels)
    \/ Step(1)

Spec == Init /\ [][Next]_vars

----------------------------------------------------------------------------
(* The concurrent specification: after start-up, NProcs goroutines each    *)
(* make one call, through the default logger or through a Log of their     *)
(* own, and their steps interleave.                                        *)

\* a Log made with New for a library, logfmt, writing where New points it
LibLog == New(OutputMaskDetail, FALSE, <<StrV("lib"), StrV("db")>>)

ConcLabels == <<StrV("n"), FuncInt(1, 4)>>

ConcMessage == <<"m", Q>>

InitConc == InitCommon /\ FatalFunc = "exit"

NextConc ==
    \/ \E w \in Writers : SetWriter(w)
    \/ \E f \in {"exit", "noop"} : SetFatalFunc(f)
    \/ \E p \in Procs, l \in {defaultLog, LibLog} :
            Fatal(p, l, Ctx1, ConcMessage, Err(<<"e">>), ConcLabels)
    \/ \E p \in Procs, l \in {defaultLog, LibLog} :
            Info(p, l, Ctx1, ConcMessage, ConcLabels)
    \/ \E p \in Procs : Step(p)

SpecConc == InitConc /\ [][NextConc]_vars

----------------------------------------------------------------------------
(* The gate specification: the default logger is given any mask of eight   *)
(* bits and either format, then caller 1 makes one call.                   *)

\* every int of eight bits: the seven flags and one bit that is no flag
AllMasks == 0 .. 255

GateLabels == {<<>>, <<StrV("lazy"), FuncString(1, "lv"), StrV("cnt"), FuncInt(2, 4)>>}

NextGate ==
    \/ \E m \in AllMasks : SetOutputMask(m)
    \/ \E v \in BOOLEAN : SetOutputJSON(v)
    \/ \E f \in {"exit", "noop"} : SetFatalFunc(f)
    \/ \E labels \in GateLabels : Fatal(1, defaultLog, Ctx1, <<"boom">>, NilErr, labels)
    \/ \E labels \in GateLabels :
            Error(1, defaultLog, Ctx1, <<"boom">>, Err(<<"io failure">>), labels)
    \/ \E labels \in GateLabels : Warning(1, defaultLog, Ctx1, <<"boom">>, NilErr, labels)
    \/ \E labels \in GateLabels : Notice(1, defaultLog, Ctx1, <<"boom">>, labels)
    \/ \E labels \in GateLabels : Info(1, defaultLog, Ctx1, <<"boom">>, labels)
    \/ \E labels \in GateLabels : Trace(1, defaultLog, Ctx1, <<"boom">>, labels)
    \/ \E labels \in GateLabels : Debug(1, defaultLog, Ctx1, <<"boom">>, labels)
    \/ Step(1)

SpecGate == Init /\ [][NextGate]_vars

----------------------------------------------------------------------------
(* The derivation specification: Logs are made with New, given a Writer,   *)
(* and derived from one another with WithLabels; then caller 1 makes one   *)
(* call through one of them.                                               *)

\* log1 := qlog.New(outputMask, outputJSON, labels...) (README.md:63).  An
\* entry of logs holds the Log, the entry it was derived from (0 for New) and,
\* as history, the labels it was made with.
NewLog(outputMask, outputJSON, labels) ==
    /\ StartUp /\ ~exited
    /\ Len(logs) < MaxLogs
    /\ logs' = Append(logs, [log |-> New(outputMask, outputJSON, labels),
                             parent |-> 0, given |-> labels])
    /\ called' = called \o writeLabelsCalls(labels)
    /\ UNCHANGED <<defaultLog, setLabels, FatalFunc, now, mx, sink, pc, frame, invoked,
                   hooked, oob, exited, switched, ctxs, draws, panicked,
                   writes, nested, span, slice>>

\* l.Writer = w on the Log just made with New, as part_000:26-27 and 34-35 do
AssignWriter(w) ==
    /\ StartUp /\ ~exited
    /\ logs # <<>>
    /\ logs[Len(logs)].parent = 0
    /\ logs' = [logs EXCEPT ![Len(logs)].log.Writer = w]
    /\ UNCHANGED <<defaultLog, setLabels, FatalFunc, now, mx, sink, pc, frame, invoked,
                   hooked, oob, exited, switched, ctxs, draws, panicked,
                   writes, called, nested, span, slice>>

\* the mutant of DeriveLog: the new labels are appended to the fragment of the
\* receiver as well
DeriveLogInPlace(i, labels) ==
    /\ StartUp /\ ~exited
    /\ Len(logs) < MaxLogs
    /\ i \in 1 .. Len(logs)
    /\ logs' = Append([logs EXCEPT ![i].log = WithLabels(logs[i].log, labels)],
                      [log |-> WithLabels(logs[i].log, labels),
                       parent |-> i, given |-> labels])
    /\ UNCHANGED <<defaultLog, setLabels, FatalFunc, now, mx, sink, pc, frame, invoked,
                   hooked, oob, exited, switched, ctxs, draws, panicked,
                   writes, called, nested, span, slice>>

\* log2 := log1.WithLabels(labels...) (README.md:64), log1 being logs[i]
DeriveLog(i, labels) ==
    /\ StartUp /\ ~exited
    /\ Len(logs) < MaxLogs
    /\ i \in 1 .. Len(logs)
    /\ logs' = Append(logs, [log |-> WithLabels(logs[i].log, labels),
                             parent |-> i, given |-> labels])
    /\ called' = called \o writeLabelsCalls(labels)
    /\ UNCHANGED <<defaultLog, setLabels, FatalFunc, now, mx, sink, pc, frame, invoked,
                   hooked, oob, exited, switched, ctxs, draws, panicked,
                   writes, nested, span, slice>>

\* a mask of two flags, neither of them a preset
OutputMaskFatalInfo == BitOr(OutputFlagFatal, OutputFlagInfo)

\* the arguments of New: mask, format and labels
NewArgs ==
    {<<OutputMaskAll, TRUE, <<StrV("section"), StrV("sensitive")>>>>,
     <<OutputMaskAll, FALSE,
       <<StrV("section"), StrV("sensitive"), StrV("n"), FuncInt(7, 1)>>>>,
     <<OutputMaskFatalInfo, TRUE, <<>>>>}

\* the arguments of WithLabels: a pair and a lazy value, and a pair before a
\* lone key
DeriveLabels ==
    {<<StrV("subsection"), StrV("critical"), StrV("cost"), FuncString(8, "high")>>,
     <<StrV("ratio"), Float64V(3142), StrV("odd")>>}

NextDerive ==
    \/ \E a \in NewArgs : NewLog(a[1], a[2], a[3])
    \/ \E w \in Writers : AssignWriter(w)
    \/ \E i \in 1 .. MaxLogs, labels \in DeriveLabels : DeriveLog(i, labels)
    \/ \E f \in {"exit", "noop"} : SetFatalFunc(f)
    \/ \E i \in 1 .. Len(logs) :
            Fatal(1, logs[i].log, Ctx1, <<"boom">>, Err(<<"io failure">>),
                  <<StrV("k"), StrV("v")>>)
    \/ \E i \in 1 .. Len(logs) : Info(1, logs[i].log, Ctx1, <<"boom">>, <<StrV("k"), StrV("v")>>)
    \/ Step(1)

SpecDerive == Init /\ [][NextDerive]_vars

----------------------------------------------------------------------------
(* The switching specification: the default logger is given a sink, a      *)
(* mask, labels and a format in any order, any number of times; then       *)
(* caller 1 makes one call.                                                *)

SwitchMasks == {OutputMaskAll, OutputMaskImportant, OutputFlagInfo}

SwitchLabels == {<<>>, <<StrV("k"), IntV(2)>>}

NextSwitch ==
    \/ \E w \in Writers : SetWriter(w)
    \/ \E m \in SwitchMasks : SetOutputMask(m)
    \/ \E v \in BOOLEAN : SetOutputJSON(v)
    \/ \E labels \in CommonLabels : SetLabels(labels)
    \/ \E f \in {"exit", "noop"} : SetFatalFunc(f)
    \/ \E err \in Errs, labels \in SwitchLabels :
            Fatal(1, defaultLog, Ctx1, <<"boom">>, err, labels)
    \/ \E labels \in SwitchLabels : Info(1, defaultLog, Ctx1, <<"boom">>, labels)
    \/ Step(1)

SpecSwitch == Init /\ [][NextSwitch]_vars

----------------------------------------------------------------------------
(* The context specification: carriers are made with ContextFrom, from     *)
(* nil, from context.Background() and from one another.                    *)

\* a call of ContextFrom (log.go:102-112).  The entry of ctxs holds, as
\* history, the arguments, whether the call returned, and the carrier it
\* returned.  A panic that the caller does not recover ends the process.
ContextFromCall(ctx, traceID, v, recovered) ==
    /\ ~exited
    /\ Len(ctxs) < MaxCtxs
    /\ LET r == ContextFrom(ctx, traceID, v)
       IN  /\ ctxs' = Append(ctxs, [from |-> ctx, given |-> traceID, ok |-> ~r.panic,
                                    ctx |-> r.ctx])
           /\ draws' = draws + (IF r.drew THEN 1 ELSE 0)
           /\ panicked' = (panicked \/ r.panic)
           /\ exited' = (r.panic /\ ~recovered)
    /\ UNCHANGED <<defaultLog, setLabels, FatalFunc, now, mx, sink, pc, frame, invoked,
                   hooked, oob, logs, switched,
                   writes, called, nested, span, slice>>

\* the calls of ContextFrom that returned
Calls == {i \in 1 .. Len(ctxs) : ctxs[i].ok}

\* the carriers ContextFrom has returned
Returned == {ctxs[i].ctx : i \in {k \in 1 .. Len(ctxs) : ctxs[k].ok}}

\* numbers the random source may return: of one, four, nine, ten, eighteen
\* and nineteen digits, the smallest and the largest among them
RandInts ==
    {Int63(0, 0, 0), Int63(0, 0, 4242), Int63(0, 0, 999999999), Int63(0, 1, 0),
     Int63(0, 999999999, 999999999), Int63(1, 0, 0), MaxInt63}

\* the traceID arguments: empty, and two supplied by the caller
TraceIDs == {<<>>, <<"id1">>, <<"id2">>}

NextCtx ==
    \E ctx \in {NilContext, Background} \cup Returned, traceID \in TraceIDs,
       v \in RandInts, recovered \in BOOLEAN :
        ContextFromCall(ctx, traceID, v, recovered)

SpecCtx == Init /\ [][NextCtx]_vars

----------------------------------------------------------------------------
(* The tracing specification: NProcs goroutines each make one call with a  *)
(* carrier of their choice, through the default logger or a Log of their   *)
(* own, while carriers go on being made.                                   *)

TraceLabels == <<StrV("n"), IntV(1)>>

\* the carrier of the request: the one ContextFrom returned first, and
\* context.Background() as long as none was made
Request == IF Calls = {} THEN Background ELSE ctxs[1].ctx

\* the carrier ContextFrom returned last
Latest == IF Calls = {} THEN Background ELSE ctxs[Len(ctxs)].ctx

\* Callers with an odd number report through the default logger, the others
\* through the Log of a library; each logs with the carrier of the request,
\* whose Trace-ID is given or generated, while further carriers with a
\* Trace-ID of their own are made, each from the one made before it.
NextTrace ==
    \/ \E traceID \in (IF ctxs = <<>> THEN {<<>>, <<"id1">>} ELSE {<<"id2">>}) :
            ContextFromCall(Latest, traceID, Int63(0, 0, 4242), TRUE)
    \/ \E f \in {"exit", "noop"} : SetFatalFunc(f)
    \/ \E p \in Procs :
            p % 2 = 1 /\ Fatal(p, defaultLog, Request, <<"boom">>, NilErr, TraceLabels)
    \/ \E p \in Procs :
            p % 2 = 0 /\ Info(p, LibLog, Request, <<"boom">>, TraceLabels)
    \/ \E p \in Procs : Step(p)

SpecTrace == InitConc /\ [][NextTrace]_vars

----------------------------------------------------------------------------
(* The values specification: caller 1 makes one call through the default   *)
(* logger, in either format, with one label whose value is of one of the   *)
(* kinds of the type switch, given directly or as a func() T.              *)

\* a value v, a func() T that returns v, and the text of v in a line, after
\* the labels of part_001:126-139
ValueTriples ==
    {<<StrV("stringval"), FuncString(1, "stringval"), <<Q, "stringval", Q>>>>,
     <<IntV(2), FuncInt(2, 2), <<"2">>>>,
     <<IntV(-40), FuncInt(3, -40), <<"-40">>>>,
     <<UintV(3), FuncUint(4, 3), <<"3">>>>,
     <<BoolV(TRUE), FuncBool(5, TRUE), <<"true">>>>,
     <<BoolV(FALSE), FuncBool(6, FALSE), <<"false">>>>,
     <<Float32V(41300), FuncFloat32(7, 41300), <<"41.30">>>>,
     <<Float32V(81300), FuncFloat32(8, 81300), <<"81.30">>>>,
     <<Float64V(3142), FuncFloat64(9, 3142), <<"3.14">>>>,
     <<Float64V(6140), FuncFloat64(10, 6140), <<"6.14">>>>,
     <<Float64V(2000), FuncFloat64(11, 2000), <<"2.00">>>>}

ValueLabels ==
    {<<StrV("key"), t[1]>> : t \in ValueTriples} \cup {<<StrV("key"), t[2]>> : t \in ValueTriples}

NextValues ==
    \/ \E v \in BOOLEAN : SetOutputJSON(v)
    \/ \E f \in {"exit", "noop"} : SetFatalFunc(f)
    \/ \E labels \in ValueLabels : Fatal(1, defaultLog, Ctx1, <<"boom">>, NilErr, labels)
    \/ \E labels \in ValueLabels : Debug(1, defaultLog, Ctx1, <<"boom">>, labels)
    \/ Step(1)

SpecValues == Init /\ [][NextValues]_vars

----------------------------------------------------------------------------
(* The liveness specification: callers log through Logs whose Writer may   *)
(* fail; every caller that can take a step eventually takes one.           *)

\* log.go:394: l.Writer.Write(b) returns 0 and an error, having taken nothing
WriteError(p) ==
    /\ ~exited
    /\ pc[p] = "write"
    /\ writes' = [writes EXCEPT ![p] = Append(@, "error")]
    /\ pc' = [pc EXCEPT ![p] = afterWrite("error")]
    /\ UNCHANGED <<logs, switched, ctxs, draws, panicked, defaultLog, setLabels, FatalFunc,
                   now, mx, sink, frame, invoked, hooked, oob, exited,
                   called, nested, span, slice>>

\* log.go:394: l.Writer.Write(b) returns n < len(b) and an error, having taken
\* the first part of b only
WriteShort(p) ==
    /\ ~exited
    /\ pc[p] = "writing"
    /\ writes' = [writes EXCEPT ![p][Len(writes[p])] = "short"]
    /\ pc' = [pc EXCEPT ![p] = afterWrite("short")]
    /\ UNCHANGED <<logs, switched, ctxs, draws, panicked, defaultLog, setLabels, FatalFunc,
                   now, mx, sink, frame, invoked, hooked, oob, exited,
                   called, nested, span, slice>>

\* the steps of a call whose Writer may fail
Proceed(p) ==
    \/ Step(p)
    \/ WriteError(p)
    \/ WriteShort(p)

LiveLabels == <<StrV("n"), FuncInt(1, 4)>>

NextLive ==
    \/ \E f \in {"exit", "noop"} : SetFatalFunc(f)
    \/ \E p \in Procs :
            p % 2 = 1 /\ Fatal(p, defaultLog, Ctx1, ConcMessage, Err(<<"e">>), LiveLabels)
    \/ \E p \in Procs : p % 2 = 0 /\ Info(p, LibLog, Ctx1, ConcMessage, LiveLabels)
    \/ \E p \in Procs : Proceed(p)

\* the Go scheduler runs every goroutine that can run, thunks return and
\* Write returns: a caller that can take a step eventually takes one
SpecLive == InitConc /\ [][NextLive]_vars /\ \A p \in Procs : WF_vars(Proceed(p))

----------------------------------------------------------------------------
(* The nesting specification: the value of a label of caller 1 is a thunk  *)
(* whose body makes a severity call of its own before it returns.          *)

\* the mutant of CallThunk: the labels are encoded with the write lock held
CallThunkLocked(p, l) ==
    /\ ~exited
    /\ pc[p] = "labels"
    /\ nested[p].phase = "none"
    /\ HasLogging(labelsOf(p))
    /\ lockFree(mx)
    /\ mx' = p
    /\ nested' = [nested EXCEPT ![p] = [phase |-> "inner", saved |-> frame[p]]]
    /\ frame' = [frame EXCEPT ![p] =
            [op |-> "Info", l |-> l, ctx |-> frame[p].ctx, severity |-> "INFO",
             message |-> <<"inner">>, err |-> NilErr, args |-> <<>>, labels |-> <<>>,
             ts |-> 0, b |-> <<>>]]
    /\ pc' = [pc EXCEPT ![p] = IF gateClosed(l.outputMask, OutputFlagInfo)
                                THEN "done" ELSE "log"]
    /\ UNCHANGED <<logs, switched, ctxs, draws, panicked, defaultLog, setLabels, FatalFunc,
                   now, sink, invoked, hooked, oob, exited,
                   writes, called, span, slice>>

\* log.go:365: val = `"` + v() + `"`, v being a thunk whose body calls
\* l.Info(ctx, "inner"): the loop over the labels of the outer call, which
\* runs before mx.Lock() (log.go:392), is left for the call the thunk makes;
\* the frame of the outer call is put aside
CallThunk(p, l) ==
    /\ ~exited
    /\ pc[p] = "labels"
    /\ nested[p].phase = "none"
    /\ HasLogging(labelsOf(p))
    /\ nested' = [nested EXCEPT ![p] = [phase |-> "inner", saved |-> frame[p]]]
    /\ frame' = [frame EXCEPT ![p] =
            [op |-> "Info", l |-> l, ctx |-> frame[p].ctx, severity |-> "INFO",
             message |-> <<"inner">>, err |-> NilErr, args |-> <<>>, labels |-> <<>>,
             ts |-> 0, b |-> <<>>]]
    /\ pc' = [pc EXCEPT ![p] = IF gateClosed(l.outputMask, OutputFlagInfo)
                                THEN "done" ELSE "log"]
    /\ UNCHANGED <<logs, switched, ctxs, draws, panicked, defaultLog, setLabels, FatalFunc,
                   now, mx, sink, invoked, hooked, oob, exited,
                   writes, called, span, slice>>

\* the call the thunk made has returned and the thunk returns its value: the
\* loop of the outer call goes on; the frame of the inner call is kept as
\* history
ThunkReturn(p) ==
    /\ ~exited
    /\ pc[p] = "done"
    /\ nested[p].phase = "inner"
    /\ nested' = [nested EXCEPT ![p] = [phase |-> "back", saved |-> frame[p]]]
    /\ frame' = [frame EXCEPT ![p] = nested[p].saved]
    /\ pc' = [pc EXCEPT ![p] = "labels"]
    /\ UNCHANGED <<logs, switched, ctxs, draws, panicked, defaultLog, setLabels, FatalFunc,
                   now, mx, sink, invoked, hooked, oob, exited,
                   writes, called, span, slice>>

\* the labels of the outer call: the value of k is a thunk that logs
NestLabels == <<StrV("k"), FuncStringLogging(5, "v")>>

\* a Log that lets Fatal through and not Info
FatalOnlyLog == New(OutputFlagFatal, TRUE, <<>>)

NextNested ==
    \/ \E w \in Writers : SetWriter(w)
    \/ \E f \in {"exit", "noop"} : SetFatalFunc(f)
    \/ \E p \in Procs :
            Info(p, defaultLog, Ctx1, ConcMessage, IF p = 1 THEN NestLabels ELSE ConcLabels)
    \/ \E p \in Procs :
            p % 2 = 0 /\ Fatal(p, LibLog, Ctx1, ConcMessage, Err(<<"e">>), ConcLabels)
    \/ \E p \in Procs, l \in {defaultLog, LibLog, FatalOnlyLog} : CallThunk(p, l)
    \/ \E p \in Procs : ThunkReturn(p)
    \/ \E p \in Procs : Step(p)

SpecNested == InitConc /\ [][NextNested]_vars

----------------------------------------------------------------------------
(* The generator specification: NProcs goroutines call                     *)
(* ContextFrom(context.Background(), "") at once.  r is one *rand.Rand     *)
(* made with rand.New(rand.NewSource(...)) (log.go:88), whose Int reads    *)
(* the state of its source and then updates it; newSpanID takes no lock    *)
(* around r.Int() (log.go:91-93).                                          *)

\* the number the source returns from the state n, n numbers having been
\* drawn before
Drawn(n) == Int63(0, 0, 4242 + n)

\* caller p is inside r.Int(): it has read the state of the source and not
\* yet stored the state that follows
InInt(p) == span[p].at = "read"

\* log.go:102-109: ContextFrom(context.Background(), ""), up to the call of
\* r.Int() in newSpanID
SpanEnter(p) ==
    /\ ~exited
    /\ span[p].at = "idle"
    /\ span' = [span EXCEPT ![p].at = "int"]
    /\ UNCHANGED <<logs, switched, ctxs, draws, panicked, defaultLog, setLabels, FatalFunc,
                   now, mx, sink, pc, frame, invoked, hooked, oob, exited,
                   writes, called, nested, slice>>

\* log.go:92: r.Int() reads the state of the source.  The read races with
\* every caller that is inside r.Int() at that moment.
SpanRead(p) ==
    /\ ~exited
    /\ span[p].at = "int"
    /\ span' = [q \in Procs |->
                    IF q = p
                        THEN [span[p] EXCEPT !.at = "read", !.seen = draws,
                                             !.raced = \E r \in Procs : InInt(r)]
                    ELSE IF InInt(q) THEN [span[q] EXCEPT !.raced = TRUE]
                    ELSE span[q]]
    /\ UNCHANGED <<logs, switched, ctxs, draws, panicked, defaultLog, setLabels, FatalFunc,
                   now, mx, sink, pc, frame, invoked, hooked, oob, exited,
                   writes, called, nested, slice>>

\* log.go:92, 108-111: r.Int() stores the state that follows the one it read
\* and returns; newSpanID cuts the number and ContextFrom attaches it.  When
\* the access raced, the number is any number v, or the source indexes its
\* vector out of range and the call panics (bad), and the update of the
\* other caller is lost.
SpanWrite(p, v, bad) ==
    /\ ~exited
    /\ span[p].at = "read"
    /\ ~span[p].raced => v = Drawn(span[p].seen) /\ ~bad
    /\ draws' = span[p].seen + 1
    /\ span' = [span EXCEPT ![p].at = "done", ![p].panic = bad,
                            ![p].id = IF bad THEN <<>> ELSE newSpanID(v)]
    /\ ctxs' = Append(ctxs, [from |-> Background, given |-> <<>>, ok |-> ~bad,
                             ctx |-> IF bad THEN NilContext
                                     ELSE ContextFrom(Background, <<>>, v).ctx])
    /\ panicked' = (panicked \/ bad)
    /\ exited' = bad
    /\ UNCHANGED <<logs, switched, defaultLog, setLabels, FatalFunc,
                   now, mx, sink, pc, frame, invoked, hooked, oob,
                   writes, called, nested, slice>>

NextSpan ==
    \/ \E p \in Procs : SpanEnter(p)
    \/ \E p \in Procs : SpanRead(p)
    \/ \E p \in Procs, v \in RandInts \cup {Drawn(n) : n \in 0 .. NProcs}, bad \in BOOLEAN :
            SpanWrite(p, v, bad)

SpecSpan == InitConc /\ [][NextSpan]_vars

----------------------------------------------------------------------------
(* The slice specification: the callers hold one slice s of labels with    *)
(* capacity to spare and call l.Op(ctx, message, s[:n]...), so that the    *)
(* labels parameter of the method is a slice over the array of s.          *)

\* append(s[:n], vals...) when n + len(vals) <= cap(s): the values are stored
\* in the array of s behind its first n elements
appendInPlace(arr, n, vals) ==
    [i \in 1 .. Len(arr) |-> IF n < i /\ i <= n + Len(vals) THEN vals[i - n] ELSE arr[i]]

\* s := []any{...} with its capacity, made before the calls
MakeSlice(arr) ==
    /\ StartUp /\ ~exited
    /\ slice.arr = <<>>
    /\ slice' = [slice EXCEPT !.arr = arr]
    /\ UNCHANGED <<logs, switched, ctxs, draws, panicked, defaultLog, setLabels, FatalFunc,
                   now, mx, sink, pc, frame, invoked, hooked, oob, exited,
                   writes, called, nested, span>>

\* The entry of a severity method of l called with s[:n]...: the gate, then
\* for Trace append(labels, "trace", true) (log.go:281), forced being the
\* values appended, then the call of l.log with the slice that results.
EnterSpread(p, op, flag, severity, l, ctx, message, err, n, forced) ==
    /\ ~exited
    /\ pc[p] = "idle"
    /\ slice.arr # <<>>
    /\ n \in 0 .. Len(slice.arr)
    /\ LET open == ~gateClosed(l.outputMask, flag)
           fits == n + Len(forced) <= Len(slice.arr)
           args == SubSeq(slice.arr, 1, n)
       IN  /\ frame' = [frame EXCEPT ![p] =
                    [op |-> op, l |-> l, ctx |-> ctx,
                     severity |-> severity, message |-> message, err |-> err,
                     args |-> args, labels |-> args \o forced, ts |-> 0, b |-> <<>>]]
           /\ slice' = IF ~open THEN slice
                       ELSE IF fits
                            THEN [arr |-> appendInPlace(slice.arr, n, forced),
                                  view |-> [slice.view EXCEPT
                                                ![p] = [shared |-> TRUE,
                                                        len |-> n + Len(forced)]]]
                       ELSE slice
           /\ pc' = [pc EXCEPT ![p] = IF open THEN "log" ELSE "done"]
    /\ UNCHANGED <<logs, switched, ctxs, draws, panicked, defaultLog, setLabels, FatalFunc,
                   now, mx, sink, invoked, hooked, oob, exited,
                   writes, called, nested, span>>

\* log.go:154-159
FatalSpread(p, l, ctx, message, err, n) ==
    EnterSpread(p, "Fatal", OutputFlagFatal, "FATAL", l, ctx, message, err, n, <<>>)

\* log.go:276-282
TraceSpread(p, l, ctx, message, n) ==
    EnterSpread(p, "Trace", OutputFlagTrace, "DEBUG", l, ctx, message, NilErr, n,
                <<StrV("trace"), BoolV(TRUE)>>)

\* log.go:300-306
DebugSpread(p, l, ctx, message, n) ==
    EnterSpread(p, "Debug", OutputFlagDebug, "DEBUG", l, ctx, message, NilErr, n, <<>>)

\* s := []any{"k", 1, "u", "w"}: a pair, and two elements more that the
\* calls given s[:1] or s[:2] do not pass
CallerArray == <<StrV("k"), IntV(1), StrV("u"), StrV("w")>>

\* how much of s a call passes: a lone key, a pair, the whole
SpreadLens == {1, 2, 4}

\* a Log that lets every severity through, and one that lets Fatal through only
EveryLog == New(BitOr(OutputMaskAll, OutputFlagTrace), FALSE, <<>>)

NextSpread ==
    \/ MakeSlice(CallerArray)
    \/ \E f \in {"exit", "noop"} : SetFatalFunc(f)
    \/ \E p \in Procs, n \in SpreadLens :
            p % 2 = 1 /\ TraceSpread(p, EveryLog, Ctx1, <<"boom">>, n)
    \/ \E p \in Procs : p % 2 = 1 /\ TraceSpread(p, FatalOnlyLog, Ctx1, <<"boom">>, 2)
    \/ \E p \in Procs : p % 2 = 1 /\ DebugSpread(p, EveryLog, Ctx1, <<"boom">>, 1)
    \/ \E p \in Procs : p % 2 = 0 /\ FatalSpread(p, EveryLog, Ctx1, <<"boom">>, NilErr, 1)
    \/ \E p \in Procs : Step(p)

SpecSpread == InitConc /\ [][NextSpread]_vars

----------------------------------------------------------------------------
(* What the claims speak of *)

\* the flag each severity operation owns (log.go:40-46)
OwnFlag(op) ==
    CASE op = "Fatal" -> OutputFlagFatal
      [] op = "Error" -> OutputFlagError
      [] op = "Warning" -> OutputFlagWarning
      [] op = "Notice" -> OutputFlagNotice
      [] op = "Info" -> OutputFlagInfo
      [] op = "Trace" -> OutputFlagTrace
      [] op = "Debug" -> OutputFlagDebug

\* flag, a power of two, is a bit of mask
HasBit(mask, flag) == (mask \div flag) % 2 = 1

\* caller p's call owns a bit that is set in the mask of its Log
OwnBitSet(p) == HasBit(frame[p].l.outputMask, OwnFlag(frame[p].op))

NoBytes == \A w \in Writers : sink[w] = <<>>

\* the positions of a call at which log has built the line but written none of it,
\* and those at which the Write has returned
Built == {"lock", "write"}
Written == {"unlock", "fatal", "done"}

HasLazy(labels) == \E i \in 1 .. Len(labels) : labels[i].kind \in LazyKinds

\* the identities of the func() T values at the value positions of labels, in order
ValueThunks(labels) ==
    LET at == SelectSeq([i \in 1 .. Len(labels) |-> i],
                        LAMBDA i : i % 2 = 0 /\ labels[i].kind \in LazyKinds)
    IN  [k \in 1 .. Len(at) |-> labels[at[k]].id]

\* sub occurs in s as a run of adjacent tokens
Contains(s, sub) ==
    \E i \in 1 .. Len(s) - Len(sub) + 1 : SubSeq(s, i, i + Len(sub) - 1) = sub

\* C1: a severity call writes to the sink if and only if its own bit is set in
\* the mask of its Log; with the bit unset the call has returned at once, no
\* sink holds a byte and no lazy label value was called; with the bit set the
\* returned call has left exactly its line in its sink.
C1_WritesIffOwnBit ==
    pc[1] # "idle" =>
        /\ ~OwnBitSet(1) => pc[1] = "done" /\ NoBytes /\ invoked[1] = <<>>
        /\ OwnBitSet(1) /\ pc[1] \in Written =>
                frame[1].b # <<>> /\ sink[frame[1].l.Writer] = frame[1].b

\* a Trace call with lazy label values under OutputMaskAll, which holds the
\* bit of Debug and not that of Trace, has returned
C1_Witness ==
    /\ pc[1] = "done"
    /\ frame[1].op = "Trace"
    /\ frame[1].l.outputMask = OutputMaskAll
    /\ HasLazy(frame[1].args)
    /\ NoBytes

\* C2: until the gate has passed and log has reached its label loop no lazy
\* value was called; from the end of the loop on, so before the lock is taken
\* and before a byte is written, each lazy value at a value position of the
\* call's labels has been called exactly once, in order, and never again.
C2_ThunksOnceAfterGate ==
    /\ pc[1] \in {"idle", "log", "labels"} => invoked[1] = <<>>
    /\ pc[1] \in {"message"} \cup Built \cup {"writing"} \cup Written =>
            invoked[1] = (IF OwnBitSet(1) THEN ValueThunks(frame[1].args) ELSE <<>>)
    /\ pc[1] \in {"message"} \cup Built => NoBytes

\* two lazy values have been called and the line is about to be written
C2_Witness ==
    /\ pc[1] = "write"
    /\ Len(invoked[1]) = 2
    /\ NoBytes

\* C4: FatalFunc runs at most once per call, only in a Fatal call whose bit is
\* set and only when the line of the call is in the sink; such a call does not
\* return without it; when the hook is a no-op the call returns; with the bit
\* unset Fatal returns having written nothing and not having run the hook.
C4_FatalHookAfterWrite ==
    /\ hooked[1] <= 1
    /\ hooked[1] = 1 =>
            /\ frame[1].op = "Fatal" /\ HasBit(frame[1].l.outputMask, OutputFlagFatal)
            /\ frame[1].b # <<>> /\ sink[frame[1].l.Writer] = frame[1].b
            /\ FatalFunc = "noop" => pc[1] = "done" /\ ~exited
    /\ frame[1].op = "Fatal" /\ pc[1] = "done" =>
            IF HasBit(frame[1].l.outputMask, OutputFlagFatal)
            THEN hooked[1] = 1
            ELSE hooked[1] = 0 /\ NoBytes /\ invoked[1] = <<>>

\* an enabled Fatal call has returned after a no-op hook ran
C4_Witness ==
    /\ pc[1] = "done"
    /\ frame[1].op = "Fatal"
    /\ hooked[1] = 1
    /\ sink[frame[1].l.Writer] = frame[1].b
    /\ frame[1].b # <<>>

\* the positions of the line terminators in s
Terminators(s) == SelectSeq([i \in 1 .. Len(s) |-> i], LAMBDA i : s[i] = NL)

\* the complete lines of s, each with its terminator, and what follows the last
CompleteLines(s) ==
    LET nl == Terminators(s)
    IN  [k \in 1 .. Len(nl) |-> SubSeq(s, IF k = 1 THEN 1 ELSE nl[k - 1] + 1, nl[k])]
Remainder(s) ==
    LET nl == Terminators(s)
    IN  SubSeq(s, IF nl = <<>> THEN 1 ELSE nl[Len(nl)] + 1, Len(s))

\* the callers whose Write to w has returned, and those in the middle of one
Finished(w) ==
    {p \in Procs : pc[p] \in Written /\ OwnBitSet(p) /\ frame[p].l.Writer = w}
Writing(w) == {p \in Procs : pc[p] = "writing" /\ frame[p].l.Writer = w}

\* C3: in every interleaving each sink holds as many complete lines as calls
\* have finished writing to it, every line being the whole line of one such
\* call and each call's line being there once; what follows the last complete
\* line is the begun line of the one caller in the middle of its Write, or
\* nothing.  So N finished callers leave exactly N whole lines.
C3_LinesWholeAndCounted ==
    \A w \in Writers :
        LET lines == CompleteLines(sink[w])
        IN  /\ Len(lines) = Cardinality(Finished(w))
            /\ \A k \in 1 .. Len(lines) :
                    Cardinality({j \in 1 .. Len(lines) : lines[j] = lines[k]})
                        = Cardinality({p \in Finished(w) : frame[p].b = lines[k]})
            /\ \/ Writing(w) = {} /\ Remainder(sink[w]) = <<>>
               \/ \E p \in Writing(w) :
                    /\ Writing(w) = {p}
                    /\ Remainder(sink[w]) = firstPart(frame[p].b)

\* every caller has returned from a call that wrote to the same sink, two of
\* them through different Logs of different formats
C3_Witness ==
    /\ \A p \in Procs : pc[p] = "done" /\ frame[p].l.Writer = Stderr
    /\ \E p, q \in Procs : frame[p].l.outputJSON /\ ~frame[q].l.outputJSON
    /\ Len(CompleteLines(sink[Stderr])) = NProcs

----------------------------------------------------------------------------
(* The fields of a line *)

\* the positions of a call from the end of the label loop on, and those at
\* which b is the finished line
Labelled == {"message"} \cup Built \cup {"writing"} \cup Written
Finishedb == Built \cup {"writing"} \cup Written

\* caller p's call has passed its gate and is at one of the positions S
At(p, S) == pc[p] \in S /\ OwnBitSet(p)

\* the token at i is followed by the key terminator of one of the two formats
IsKeyAt(s, i) ==
    \/ i + 1 <= Len(s) /\ s[i + 1] = "="
    \/ i + 2 <= Len(s) /\ s[i + 1] = Q /\ s[i + 2] = ": "

\* the keys of the fields of s, in the order in which they stand in s
Keys(s) ==
    LET at == SelectSeq([i \in 1 .. Len(s) |-> i], LAMBDA i : IsKeyAt(s, i))
    IN  [k \in 1 .. Len(at) |-> s[at[k]]]

\* the text of a label key: the string itself, or what %v makes of another value
KeyText(v) == IF v.kind = "string" THEN v.s ELSE Sprintv(v)

\* the keys of the elements of labels that stand at its odd positions
CallKeys(labels) == [k \in 1 .. (Len(labels) + 1) \div 2 |-> KeyText(labels[2 * k - 1])[1]]

\* those among them that are strings
StringKeys(labels) ==
    LET at == SelectSeq([i \in 1 .. Len(labels) |-> i],
                        LAMBDA i : i % 2 = 1 /\ labels[i].kind = "string")
    IN  [k \in 1 .. Len(at) |-> labels[at[k]].s[1]]

\* C5: the keys of the fields of a finished line are, in this order: trace,
\* severity, timestamp, error if an error was given, the string keys of the
\* common labels in the order in which they were set, the keys of the labels
\* handed to log in the order supplied (for Trace the forced pair comes after
\* the caller's), and message; the line in the sink is that line.
C5_FieldOrder ==
    At(1, Finishedb) =>
        /\ Keys(frame[1].b)
            = <<"trace", "severity", "timestamp">>
                \o (IF frame[1].err.nil THEN <<>> ELSE <<"error">>)
                \o StringKeys(setLabels)
                \o CallKeys(frame[1].labels)
                \o <<"message">>
        /\ At(1, Written) => sink[frame[1].l.Writer] = frame[1].b

\* a line with an error, common labels and three call-site pairs was written
C5_Witness ==
    /\ pc[1] = "done"
    /\ ~frame[1].err.nil
    /\ Len(setLabels) >= 2
    /\ Len(frame[1].args) >= 6
    /\ sink[frame[1].l.Writer] = frame[1].b

\* the severity names of the operations that take an error
SeverityName(op) ==
    CASE op = "Fatal" -> "FATAL" [] op = "Error" -> "ERROR" [] op = "Warning" -> "WARNING"

\* C6: the line of an enabled Fatal, Error or Warning call on a JSON Log begins
\* { "trace": "<id>", "severity": "<SEV>", "timestamp": "<ts>" and goes on with
\* the separator of the next field directly after the closing quote of the
\* timestamp: , "error": " when an error was given, , " otherwise.
C6_JSONErrorFieldSeparated ==
    At(1, Finishedb) /\ frame[1].op \in {"Fatal", "Error", "Warning"}
        /\ frame[1].l.outputJSON =>
        LET upToTimestamp ==
                <<"{ ", Q, "trace", Q, ": ", Q>> \o TraceID(frame[1].ctx)
                \o <<Q, ", ", Q, "severity", Q, ": ", Q, SeverityName(frame[1].op)>>
                \o <<Q, ", ", Q, "timestamp", Q, ": ", Q>> \o Timestamp(frame[1].ts)
                \o <<Q>>
            want ==
                upToTimestamp
                \o (IF frame[1].err.nil THEN <<", ", Q>>
                    ELSE <<", ", Q, "error", Q, ": ", Q>>)
        IN  SubSeq(frame[1].b, 1, Len(want)) = want

\* the same for the calls that were given no error, which is how the code behaves
C6_NilErrorSeparated ==
    frame[1].err.nil => C6_JSONErrorFieldSeparated

\* the number of quote characters in s
RECURSIVE CountQ(_)
CountQ(s) == IF s = <<>> THEN 0 ELSE (IF Head(s) = Q THEN 1 ELSE 0) + CountQ(Tail(s))

\* s with every backslash that stands before a quote character removed
RECURSIVE Unescape(_)
Unescape(s) ==
    IF s = <<>> THEN <<>>
    ELSE IF Len(s) >= 2 /\ s[1] = BS /\ s[2] = Q THEN <<Q>> \o Unescape(SubSeq(s, 3, Len(s)))
    ELSE <<Head(s)>> \o Unescape(Tail(s))

\* seg is text with a backslash put before each quote character and nothing else changed
EscapedFrom(seg, text) ==
    /\ Unescape(seg) = text
    /\ \A i \in 1 .. Len(seg) : seg[i] = Q => i > 1 /\ seg[i - 1] = BS
    /\ CountQ(text) = 0 => seg = text

\* the position of the first field of s whose key is key, 0 if there is none
FirstKey(s, key) ==
    LET at == SelectSeq([i \in 1 .. Len(s) |-> i], LAMBDA i : s[i] = key /\ IsKeyAt(s, i))
    IN  IF at = <<>> THEN 0 ELSE at[1]

\* C7: in a written line the value of the message field is the message with a
\* backslash before each of its quote characters, between one opening and one
\* closing quote at the end of the line; the value of the error field, when
\* an error was given, is the text of the error treated the same way; text
\* without quote characters stands there as it is.
C7_QuotesEscaped ==
    At(1, Written) =>
        LET f == frame[1]
            j == f.l.outputJSON
            line == sink[f.l.Writer]
            tail == <<Q>> \o closeLog(j) \o <<NL>>
            lead == openField(j) \o <<"message">> \o closeField(j) \o <<Q>>
            n == Len(f.message) + CountQ(f.message)
            mend == Len(line) - Len(tail)
            e == FirstKey(line, "error")
            estart == e + Len(closeField(j)) + 2
            en == Len(f.err.text) + CountQ(f.err.text)
        IN  /\ SubSeq(line, mend + 1, Len(line)) = tail
            /\ EscapedFrom(SubSeq(line, mend - n + 1, mend), f.message)
            /\ SubSeq(line, mend - n - Len(lead) + 1, mend - n) = lead
            /\ f.err.nil => e = 0
            /\ ~f.err.nil =>
                    /\ e > 0
                    /\ line[estart - 1] = Q
                    /\ EscapedFrom(SubSeq(line, estart, estart + en - 1), f.err.text)
                    /\ line[estart + en] = Q

\* a line was written whose message and whose error text hold quote characters
C7_Witness ==
    /\ pc[1] = "done"
    /\ CountQ(frame[1].message) > 0
    /\ ~frame[1].err.nil /\ CountQ(frame[1].err.text) > 0
    /\ sink[frame[1].l.Writer] # <<>>

Last(s) == s[Len(s)]

\* the field that pairs the key k with the sentinel as its value
SentinelValueField(outputJSON, k) ==
    openField(outputJSON) \o KeyText(k) \o closeField(outputJSON) \o <<Q, "#missing#", Q>>

\* C8: when a call is given an odd number of call-site labels, its line holds
\* the last supplied element as a key paired with the value "#missing#" and no
\* index left the slice; when the default logger was given an odd number of
\* common labels, its fragment holds the last of them paired in the same way.
C8_LastElementPairedWithSentinel ==
    /\ At(1, Labelled) /\ Len(frame[1].args) % 2 = 1 =>
            /\ ~oob[1]
            /\ Contains(frame[1].b,
                        SentinelValueField(frame[1].l.outputJSON, Last(frame[1].args)))
    /\ Len(setLabels) % 2 = 1 =>
            Contains(defaultLog.commonLabels,
                     SentinelValueField(defaultLog.outputJSON, Last(setLabels)))

C10_TraceIsDebugPlusForcedLabel ==
    At(1, Finishedb) /\ frame[1].op = "Trace" =>
        LET f == frame[1]
            j == f.l.outputJSON
        IN  /\ f.severity = "DEBUG"
            /\ f.b = header(f, f.ts) \o f.l.commonLabels \o logLabels(j, f.args).out
                        \o openField(j) \o <<"trace">> \o closeField(j) \o <<"true">>
                        \o messageField(f)

\* the same for the calls given an even number of labels, which is how the code behaves
C10_EvenLabels ==
    Len(frame[1].args) % 2 = 0 => C10_TraceIsDebugPlusForcedLabel

----------------------------------------------------------------------------
(* The preset masks *)

Ops == {"Fatal", "Error", "Warning", "Notice", "Info", "Trace", "Debug"}

\* the severity operations that pass their gate under mask (log.go:155, 180,
\* 205, 229, 253, 277, 301)
EnabledBy(mask) == {op \in Ops : ~gateClosed(mask, OwnFlag(op))}

\* caller p's call has returned and its whole line is what its sink holds
WroteLine(p) ==
    /\ pc[p] \in Written
    /\ frame[p].b # <<>>
    /\ sink[frame[p].l.Writer] = frame[p].b

\* C11: a call of any of the seven severity operations on a Log whose mask is
\* the preset OutputMaskAll, once log has returned or the gate has turned it
\* away, has written its line.
C11_MaskAllWritesEverySeverity ==
    pc[1] \in {"fatal", "done"} /\ frame[1].l.outputMask = OutputMaskAll => WroteLine(1)

\* the same for the six operations other than Trace, which is how the code behaves
C11_AllButTrace ==
    frame[1].op # "Trace" => C11_MaskAllWritesEverySeverity

PowersOfTwo == {1, 2, 4, 8, 16, 32, 64}

----------------------------------------------------------------------------
(* Derived Logs *)

\* the labels the Log of entry i and the Logs it descends from were made
\* with, the oldest first
RECURSIVE Chain(_)
Chain(i) ==
    IF logs[i].parent = 0 THEN <<logs[i].given>>
    ELSE Append(Chain(logs[i].parent), logs[i].given)

\* the string keys of the label sequences of chain, in order
RECURSIVE ChainKeys(_)
ChainKeys(chain) ==
    IF chain = <<>> THEN <<>> ELSE StringKeys(Head(chain)) \o ChainKeys(Tail(chain))

\* s uses the braces and separators of JSON throughout, or of logfmt throughout
JSONThroughout(s) ==
    /\ Len(s) >= 3
    /\ s[1] = "{ " /\ s[Len(s) - 1] = " }" /\ s[Len(s)] = NL
    /\ \A i \in 1 .. Len(s) : s[i] \notin {" ", "="}
LogfmtThroughout(s) ==
    /\ s # <<>> /\ s[Len(s)] = NL
    /\ \A i \in 1 .. Len(s) : s[i] \notin {"{ ", " }", ", ", ": "}
InFormat(s, outputJSON) == IF outputJSON THEN JSONThroughout(s) ELSE LogfmtThroughout(s)

\* the entries of logs that were derived with WithLabels
DerivedLogs == {i \in 1 .. Len(logs) : logs[i].parent # 0}

\* C13: a Log derived with WithLabels has the mask, the sink and the output
\* format of the Log it was derived from, and a finished line of a call
\* through it is written throughout in the format of that parent: JSON for
\* the child of a JSON Log, logfmt for the child of a logfmt Log.
C13_ChildInheritsFormat ==
    \A i \in DerivedLogs :
        LET child == logs[i].log
            parent == logs[logs[i].parent].log
        IN  /\ child.outputMask = parent.outputMask
            /\ child.Writer = parent.Writer
            /\ child.outputJSON = parent.outputJSON
            /\ At(1, Finishedb) /\ frame[1].l = child => InFormat(frame[1].b, parent.outputJSON)

\* the entry made with New from which entry i descends
RECURSIVE Root(_)
Root(i) == IF logs[i].parent = 0 THEN i ELSE Root(logs[i].parent)

\* what of it the code does: the mask and the sink are the parent's, and a
\* Log that descends from a logfmt Log is a logfmt Log whose lines are logfmt
\* throughout
C13_MaskSinkAndLogfmtInherited ==
    \A i \in DerivedLogs :
        LET child == logs[i].log
            parent == logs[logs[i].parent].log
        IN  /\ child.outputMask = parent.outputMask
            /\ child.Writer = parent.Writer
            /\ ~logs[Root(i)].log.outputJSON =>
                    /\ ~child.outputJSON
                    /\ At(1, Finishedb) /\ frame[1].l = child => InFormat(frame[1].b, FALSE)

\* the field of the pair of labels at i and i + 1, in the format outputJSON
CommonField(outputJSON, labels, i) ==
    openField(outputJSON) \o labels[i].s \o closeField(outputJSON)
        \o commonValue(balance(labels)[i + 1])

\* every pair of labels whose key is a string stands in s as a field of one
\* of the two formats
PairsIn(s, labels) ==
    \A i \in 1 .. Len(labels) :
        i % 2 = 1 /\ labels[i].kind = "string" =>
            \E outputJSON \in BOOLEAN : Contains(s, CommonField(outputJSON, labels, i))

\* C14: the common-label fragment of every Log holds the labels of the Logs
\* it descends from and then its own, the oldest first, each once and no
\* others, whatever was derived from it since; and the fields of a finished
\* line of a call through a Log are trace, severity, timestamp, error if
\* given, those labels in that order, each once, the labels of the call, and
\* message, each pair standing in the line with its value.
C14_ParentThenChildLabelsOnce ==
    \A i \in 1 .. Len(logs) :
        /\ Keys(logs[i].log.commonLabels) = ChainKeys(Chain(i))
        /\ \A k \in 1 .. Len(Chain(i)) : PairsIn(logs[i].log.commonLabels, Chain(i)[k])
        /\ At(1, Finishedb) /\ frame[1].l = logs[i].log =>
                /\ Keys(frame[1].b)
                    = <<"trace", "severity", "timestamp">>
                        \o (IF frame[1].err.nil THEN <<>> ELSE <<"error">>)
                        \o ChainKeys(Chain(i))
                        \o CallKeys(frame[1].labels)
                        \o <<"message">>
                /\ Contains(frame[1].b, logs[i].log.commonLabels)
                /\ At(1, Written) => sink[frame[1].l.Writer] = frame[1].b

\* a line was written through a Log derived from a Log derived from a Log
\* made with labels
C14_Witness ==
    /\ Len(logs) = 3
    /\ logs[3].parent = 2 /\ logs[2].parent = 1 /\ logs[1].given # <<>>
    /\ logs[2].given # logs[3].given
    /\ pc[1] = "done"
    /\ frame[1].l = logs[3].log
    /\ sink[frame[1].l.Writer] = frame[1].b /\ frame[1].b # <<>>

----------------------------------------------------------------------------
(* Switching the format of the default logger *)

\* no key of keys is the key of a field of s
NoneOf(keys, s) ==
    \A i \in 1 .. Len(keys) : \A k \in 1 .. Len(Keys(s)) : Keys(s)[k] # keys[i]

\* C15: the default logger has the format last given to SetOutputJSON and the
\* mask and the sink last configured, whatever SetOutputJSON and SetLabels
\* were called since; once SetOutputJSON was called and SetLabels not again,
\* its fragment of common labels is empty; and a line built after that is
\* written throughout in the format given, holds none of the labels set
\* before the switch, and goes to the sink configured.
C15_SwitchKeepsMaskAndSinkDropsLabels ==
    /\ defaultLog.outputJSON = switched.json
    /\ defaultLog.outputMask = switched.mask
    /\ defaultLog.Writer = switched.Writer
    /\ switched.done => setLabels = <<>> /\ defaultLog.commonLabels = <<>>
    /\ pc[1] # "idle" =>
            /\ frame[1].l = defaultLog
            /\ OwnBitSet(1) <=> HasBit(switched.mask, OwnFlag(frame[1].op))
    /\ At(1, Finishedb) =>
            /\ InFormat(frame[1].b, switched.json)
            /\ switched.done => NoneOf(StringKeys(switched.labels), frame[1].b)
    /\ At(1, Written) =>
            /\ sink[switched.Writer] = frame[1].b
            /\ \A w \in Writers \ {switched.Writer} : sink[w] = <<>>

\* labels were set, a sink other than stderr and a mask other than the
\* default were configured, the format was switched to logfmt, and a line
\* was written
C15_Witness ==
    /\ switched.done /\ ~switched.json
    /\ switched.labels # <<>>
    /\ switched.Writer # Stderr
    /\ switched.mask # OutputMaskAll
    /\ pc[1] = "done"
    /\ sink[switched.Writer] = frame[1].b /\ frame[1].b # <<>>

----------------------------------------------------------------------------
(* The carriers *)

\* id is what newSpanID makes of one of the numbers the random source returns
Generated(id) == \E v \in RandInts : id = newSpanID(v)

\* C16: a call of ContextFrom on a carrier that is not nil returns a new
\* carrier whose Trace-ID is the traceID given, or, the traceID given being
\* empty, a generated one that is not empty; the identifiers of the carrier
\* it was called on are all there before the new one, so the Trace-ID of that
\* carrier is what it was; a carrier made from a carrier that has a Trace-ID
\* has the newer one; and a carrier with no identifier has the empty Trace-ID.
C16_ContextFromAttaches ==
    /\ TraceID(Background) = <<>>
    /\ \A i \in 1 .. Len(ctxs) :
        LET e == ctxs[i]
        IN  ~e.from.nil =>
                /\ e.ok /\ ~e.ctx.nil
                /\ e.given # <<>> => TraceID(e.ctx) = e.given
                /\ e.given = <<>> => TraceID(e.ctx) # <<>> /\ Generated(TraceID(e.ctx))
                /\ Len(e.ctx.ids) = Len(e.from.ids) + 1
                /\ SubSeq(e.ctx.ids, 1, Len(e.from.ids)) = e.from.ids
                /\ TraceID([e.ctx EXCEPT !.ids = SubSeq(@, 1, Len(@) - 1)]) = TraceID(e.from)

\* a carrier with a generated Trace-ID was made from a carrier with a given
\* one, and a carrier with another given one from that
C16_Witness ==
    /\ Len(ctxs) = 3
    /\ ctxs[1].given = <<"id1">> /\ ctxs[1].from = Background
    /\ ctxs[2].given = <<>> /\ ctxs[2].from = ctxs[1].ctx
    /\ ctxs[3].given = <<"id2">> /\ ctxs[3].from = ctxs[2].ctx
    /\ TraceID(ctxs[3].ctx) = <<"id2">>

\* C17: a call of ContextFrom on the nil carrier panics and returns no
\* carrier, whether the traceID given is empty or not, and draws no number:
\* as many numbers were drawn as calls with the empty traceID returned.
C17_NilCarrierPanicsBeforeDraw ==
    /\ \A i \in 1 .. Len(ctxs) :
            ctxs[i].from.nil => ~ctxs[i].ok /\ ctxs[i].ctx = NilContext /\ panicked
    /\ panicked <=> \E i \in 1 .. Len(ctxs) : ctxs[i].from.nil
    /\ draws = Cardinality({i \in Calls : ctxs[i].given = <<>>})
    /\ exited => panicked

\* ContextFrom was called on nil with the empty traceID after a call that drew a number
C17_Witness ==
    /\ Len(ctxs) >= 2
    /\ ctxs[1].ok /\ ctxs[1].given = <<>>
    /\ ctxs[2].from.nil /\ ctxs[2].given = <<>>
    /\ panicked /\ draws = 1

DecimalDigits == {"0", "1", "2", "3", "4", "5", "6", "7", "8", "9"}

\* id is the decimal digits of a non-negative integer, then filler characters
DigitsThenFiller(id) ==
    \E k \in 1 .. Len(id) :
        /\ \A i \in 1 .. k : id[i] \in DecimalDigits
        /\ k > 1 => id[1] # "0"
        /\ \A i \in k + 1 .. Len(id) : id[i] = "X"

\* C18: every Trace-ID that ContextFrom generated is nineteen characters
\* long, the width of pad, and is the decimal digits of a non-negative
\* integer followed by filler characters; so is what newSpanID makes of each
\* number the random source can return, the largest of 63 bits among them.
C18_GeneratedIDsOfConstantLength ==
    /\ Len(pad) = 19
    /\ \A v \in RandInts : Len(newSpanID(v)) = 19 /\ DigitsThenFiller(newSpanID(v))
    /\ \A i \in Calls :
            ctxs[i].given = <<>> =>
                /\ Len(TraceID(ctxs[i].ctx)) = 19
                /\ DigitsThenFiller(TraceID(ctxs[i].ctx))

\* one Trace-ID was generated from the largest number, which fills the
\* width with digits, and one from the smallest
C18_Witness ==
    /\ \E i \in Calls : ctxs[i].given = <<>> /\ TraceID(ctxs[i].ctx) = Itoa63(MaxInt63)
    /\ \E i \in Calls : ctxs[i].given = <<>> /\ TraceID(ctxs[i].ctx) = <<"0">> \o SubSeq(pad, 1, 18)

----------------------------------------------------------------------------
(* The trace field *)

\* the text of s from i on up to the next quote character
RECURSIVE UpToQuote(_, _)
UpToQuote(s, i) ==
    IF i > Len(s) \/ s[i] = Q THEN <<>> ELSE <<s[i]>> \o UpToQuote(s, i + 1)

\* the value of the first trace field of the line s, between its quotes
TraceValue(s) ==
    LET k == FirstKey(s, TraceIDFieldName)
    IN  UpToQuote(s, IF s[k + 1] = "=" THEN k + 3 ELSE k + 4)

\* C19: the trace field of every finished line is the first field of the line
\* and holds the Trace-ID of the carrier the call was given; the written line
\* stands whole in the sink; so the lines of two calls given the same carrier
\* hold the same trace value, whichever operation and Log wrote them and
\* whatever carriers were made meanwhile, and every line in a sink holds the
\* Trace-ID of the carrier of a call that wrote to it.
C19_LinesCarryCarrierTraceID ==
    /\ \A p \in Procs :
            At(p, Finishedb) =>
                /\ FirstKey(frame[p].b, TraceIDFieldName) \in {1, 3}
                /\ TraceValue(frame[p].b) = TraceID(frame[p].ctx)
    /\ \A p, q \in Procs :
            At(p, Finishedb) /\ At(q, Finishedb) /\ frame[p].ctx = frame[q].ctx =>
                TraceValue(frame[p].b) = TraceValue(frame[q].b)
    /\ \A w \in Writers :
            LET lines == CompleteLines(sink[w])
            IN  /\ \A p \in Finished(w) : \E k \in 1 .. Len(lines) : lines[k] = frame[p].b
                /\ \A k \in 1 .. Len(lines) :
                        \E p \in Finished(w) : TraceValue(lines[k]) = TraceID(frame[p].ctx)

\* a Fatal call through the default logger and an Info call through the Log
\* of a library, both given the carrier of the request with its generated
\* Trace-ID, have written their lines, and two more carriers were made
C19_Witness ==
    /\ Len(ctxs) >= 3
    /\ ctxs[1].given = <<>>
    /\ TraceID(ctxs[2].ctx) # TraceID(ctxs[1].ctx)
    /\ pc[1] = "done" /\ pc[2] = "done"
    /\ frame[1].ctx = ctxs[1].ctx /\ frame[2].ctx = ctxs[1].ctx
    /\ frame[1].op = "Fatal" /\ frame[2].op = "Info"
    /\ Len(CompleteLines(sink[Stderr])) >= 2

----------------------------------------------------------------------------
(* Lazy values *)

\* s ends with sub
EndsWith(s, sub) ==
    Len(s) >= Len(sub) /\ SubSeq(s, Len(s) - Len(sub) + 1, Len(s)) = sub

\* C20: for each of the six kinds a func() T can return, a label whose value
\* is a func() T returning v makes the same field as a label whose value is
\* v: the key, the separator of the format and the text of v, a string
\* between quotes, a float with two decimals, the others bare; the func()
\* T was called once for it; and the field stands before the message in the
\* written line, in JSON and in logfmt.
C20_LazyRendersAsDirect ==
    \A t \in ValueTriples :
        /\ t[2].kind \in LazyKinds /\ t[1].kind \notin LazyKinds
        /\ \A outputJSON \in BOOLEAN :
                logLabels(outputJSON, <<StrV("key"), t[2]>>).out
                    = logLabels(outputJSON, <<StrV("key"), t[1]>>).out
        /\ frame[1].args \in {<<StrV("key"), t[1]>>, <<StrV("key"), t[2]>>} =>
                LET j == frame[1].l.outputJSON
                    field == openField(j) \o <<"key">> \o closeField(j) \o t[3]
                IN  /\ At(1, {"message"}) => EndsWith(frame[1].b, field)
                    /\ At(1, Labelled) =>
                            invoked[1] = (IF frame[1].args[2] = t[2] THEN <<t[2].id>> ELSE <<>>)
                    /\ At(1, Written) =>
                            Contains(sink[frame[1].l.Writer],
                                     field \o openField(j) \o <<"message">>)

\* a line was written in logfmt whose label value is a func() float32
C20_Witness ==
    /\ pc[1] = "done"
    /\ ~frame[1].l.outputJSON
    /\ Len(frame[1].args) = 2 /\ frame[1].args[2].kind = "func() float32"
    /\ Contains(sink[frame[1].l.Writer], <<" ", "key", "=", "41.30", " ", "message">>)

----------------------------------------------------------------------------
(* Keys that are no strings *)

\* every pair of labels, whatever the type of its key, stands in s as a
\* field whose key is the text of the key
EveryKeyIn(s, labels) ==
    \A i \in 1 .. Len(labels) :
        i % 2 = 1 => \E outputJSON \in BOOLEAN :
            Contains(s, openField(outputJSON) \o KeyText(labels[i]) \o closeField(outputJSON))

\* C21: a finished line holds a field for every pair of the labels of the
\* call and for every pair of the common labels of the default logger, the
\* key of a pair whose key is no string being its rendering by %v; the keys
\* of the line are those of all these pairs, none left out.
C21_NonStringKeysRendered ==
    At(1, Finishedb) =>
        /\ EveryKeyIn(frame[1].b, frame[1].labels)
        /\ EveryKeyIn(frame[1].b, setLabels)
        /\ Keys(frame[1].b)
            = <<"trace", "severity", "timestamp">>
                \o (IF frame[1].err.nil THEN <<>> ELSE <<"error">>)
                \o CallKeys(setLabels)
                \o CallKeys(frame[1].labels)
                \o <<"message">>

\* the same for the labels of the call alone, which is how the code behaves
C21_CallSiteKeysRendered ==
    At(1, Finishedb) => EveryKeyIn(frame[1].b, frame[1].labels)

----------------------------------------------------------------------------
(* The write lock *)

\* the positions of a call between mx.Lock() and the deferred mx.Unlock()
Holding == {"write", "writing", "unlock"}

\* C22: the lock is held by a caller exactly while it is between Lock and
\* Unlock, so at most one caller, whatever its Log and its sink, is in a
\* Write; a caller that reads the clock, encodes its labels, calls its lazy
\* values or builds the message does not hold the lock, and when it comes
\* to the lock its line is finished and its lazy values were called; the
\* termination hook runs without the lock.
C22_OneWriterLockAroundWriteOnly ==
    /\ \A p \in Procs : mx = p <=> pc[p] \in Holding
    /\ Cardinality({p \in Procs : pc[p] \in Holding}) <= 1
    /\ \A p \in Procs :
            /\ pc[p] \in {"log", "labels", "message", "lock", "fatal", "done"} => mx # p
            /\ pc[p] \in {"log", "labels"} => frame[p].b = <<>> \/ invoked[p] = <<>>
            /\ pc[p] = "lock" =>
                    /\ invoked[p] = ValueThunks(frame[p].args)
                    /\ frame[p].b # <<>> /\ Last(frame[p].b) = NL
                    /\ frame[p].ts < now

\* one caller is in the middle of its Write to one sink while another, whose
\* Log writes to a different sink, waits for the lock with its line finished
C22_Witness ==
    \E p, q \in Procs :
        /\ pc[p] = "writing" /\ pc[q] = "lock"
        /\ frame[p].l.Writer # frame[q].l.Writer
        /\ mx = p

----------------------------------------------------------------------------
(* The order of the lines *)

\* the place of the line of caller p among the complete lines of sink w, 0 if
\* it is not there
PlaceIn(w, p) ==
    LET lines == CompleteLines(sink[w])
        at == {k \in 1 .. Len(lines) : lines[k] = frame[p].b}
    IN  IF at = {} THEN 0 ELSE CHOOSE k \in at : \A m \in at : k <= m

\* C30: when the line of one caller stands before the line of another in the
\* same sink, the first caller read the clock no later than the second.
C30_TimestampsFollowSinkOrder ==
    \A w \in Writers : \A p, q \in Finished(w) :
        PlaceIn(w, p) # 0 /\ PlaceIn(w, p) < PlaceIn(w, q) => frame[p].ts <= frame[q].ts

----------------------------------------------------------------------------
(* The Write and what follows it *)

\* caller p has returned from a call that passed its gate: with one Write
\* made, the lock not held, and the termination hook run once if the call
\* was Fatal
ReturnedAfterOneWrite(p) ==
    /\ pc[p] = "done"
    /\ Len(writes[p]) = 1 /\ writes[p][1] # "begun"
    /\ mx # p
    /\ hooked[p] = (IF frame[p].op = "Fatal" THEN 1 ELSE 0)

\* C23: a call that has passed its gate makes at most one Write, whatever
\* that Write returns; once log has returned the Write was made, has ended and
\* the lock is released, and Fatal's hook has run when Fatal is done or the
\* process is terminated; and every call that has passed its gate eventually
\* returns so, unless the termination hook of a Fatal call ends the process.
C23_OneWriteThenUnlockAndReturn ==
    /\ [](\A p \in Procs :
            /\ Len(writes[p]) <= 1
            /\ pc[p] \in {"fatal", "done"} /\ frame[p].b # <<>> =>
                    Len(writes[p]) = 1 /\ writes[p][1] # "begun" /\ mx # p
            /\ pc[p] = "done" /\ frame[p].op = "Fatal" /\ frame[p].b # <<>> => hooked[p] = 1
            /\ exited => \E q \in Procs : pc[q] = "fatal" /\ hooked[q] = 1)
    /\ \A p \in Procs : (pc[p] = "log") ~> (ReturnedAfterOneWrite(p) \/ exited)

\* a Fatal call whose Write was short has returned with the hook run, and an
\* Info call whose Write reported an error has returned, the lock being free
C23_Witness ==
    \E p, q \in Procs :
        /\ frame[p].op = "Fatal" /\ writes[p] = <<"short">> /\ ReturnedAfterOneWrite(p)
        /\ frame[q].op = "Info" /\ writes[q] = <<"error">> /\ ReturnedAfterOneWrite(q)
        /\ mx = 0 /\ ~exited

----------------------------------------------------------------------------
(* What a call leaves alone *)

\* C24: no step changes the mask, the format or the common-label fragment of
\* a Log that exists, and the Writer of a Log changes in no step of a severity
\* call and in no WithLabels: a Log keeps what it was made with when it is
\* logged through, derived from, or when a Log derived from it is; the calls
\* leave the default logger as it is, too.
C24_ReceiverUnchanged ==
    [][/\ Len(logs') >= Len(logs)
       /\ \A i \in 1 .. Len(logs) :
            /\ logs'[i].log.outputMask = logs[i].log.outputMask
            /\ logs'[i].log.outputJSON = logs[i].log.outputJSON
            /\ logs'[i].log.commonLabels = logs[i].log.commonLabels
            /\ logs'[i].parent = logs[i].parent
            /\ Len(logs') # Len(logs) \/ pc' # pc \/ sink' # sink \/ mx' # mx
                    => logs'[i].log.Writer = logs[i].log.Writer
       /\ pc' # pc \/ Len(logs') # Len(logs) => defaultLog' = defaultLog]_vars

\* a Log was made, a second derived from it and a third from the second; the
\* call through one of the three is written, and the three are as they were
\* made: the first has its own labels alone
C24_Witness ==
    /\ Len(logs) = 3
    /\ logs[1].parent = 0 /\ logs[2].parent = 1 /\ logs[3].parent = 2
    /\ logs[1].given # <<>> /\ logs[2].given # <<>> /\ logs[3].given # <<>>
    /\ logs[1].log.commonLabels = writeLabels(logs[1].log.outputJSON, logs[1].given)
    /\ At(1, {"done"})
    /\ frame[1].l = logs[2].log
    /\ sink[frame[1].l.Writer] = frame[1].b

----------------------------------------------------------------------------
(* Lazy values among the common labels *)

\* the thunks among the values of labels
LazyIn(labels) ==
    {i \in 1 .. Len(labels) : i % 2 = 0 /\ labels[i].kind \in LazyKinds}

\* the ids of the thunks given to New and WithLabels as values of common labels
CommonThunkIds ==
    UNION {{logs[i].given[k].id : k \in LazyIn(logs[i].given)} : i \in 1 .. Len(logs)}

\* C25: New and WithLabels call no thunk, and no call through a Log calls a
\* thunk that is a common label; the fragment of a Log holds, for a common
\* label whose value is a thunk, the %v rendering of the func and not what
\* the func returns; and a finished line of a call through a Log holds the
\* fragment of that Log, as it was made, right after the header and the
\* error field.
C25_CommonThunksNeverCalled ==
    /\ called = <<>>
    /\ \A p \in Procs : \A k \in 1 .. Len(invoked[p]) : invoked[p][k] \notin CommonThunkIds
    /\ \A i \in 1 .. Len(logs) :
        /\ \A k \in LazyIn(logs[i].given) :
            /\ logs[i].given[k - 1].kind = "string" =>
                    \E outputJSON \in BOOLEAN :
                        Contains(logs[i].log.commonLabels,
                                 openField(outputJSON) \o logs[i].given[k - 1].s
                                    \o closeField(outputJSON) \o Sprintv(logs[i].given[k]))
            /\ ~Contains(logs[i].log.commonLabels, logValue(logs[i].given[k]))
        /\ At(1, Finishedb) /\ frame[1].l = logs[i].log =>
                LET n == Len(header(frame[1], frame[1].ts) \o errorField(frame[1]))
                    m == Len(logs[i].log.commonLabels)
                IN  /\ Len(frame[1].b) >= n + m
                    /\ SubSeq(frame[1].b, n + 1, n + m) = logs[i].log.commonLabels

\* a Log was made with a thunk as the value of a common label and a second
\* derived from it with another; a call through the second is written, its
\* line holding the renderings of both funcs, and no thunk was called
C25_Witness ==
    /\ Len(logs) >= 2
    /\ LazyIn(logs[1].given) # {} /\ logs[2].parent = 1 /\ LazyIn(logs[2].given) # {}
    /\ At(1, {"done"}) /\ frame[1].l = logs[2].log
    /\ sink[frame[1].l.Writer] = frame[1].b
    /\ Contains(frame[1].b, <<"n", "=", "0xfunc7">>)
    /\ Contains(frame[1].b, <<"cost", "=", "0xfunc8">>)
    /\ invoked[1] = <<>> /\ called = <<>>

----------------------------------------------------------------------------
(* The setters of the default logger *)

\* C26: the fragment of the default logger is that of the labels last given
\* to SetLabels alone; a finished line holds the keys of those labels and,
\* once SetLabels has replaced labels set before, none of the keys that only
\* the replaced labels had; and every configuration step changes its own
\* setting only: a step that changes the fragment and not the format leaves
\* mask, format and sink as they were, a step that changes the mask leaves
\* format, fragment and sink, and a step that changes the sink leaves mask,
\* format and fragment.
C26_SetLabelsReplacesSettersIndependent ==
    /\ [](/\ defaultLog.commonLabels = writeLabels(defaultLog.outputJSON, setLabels)
          /\ defaultLog.outputMask = switched.mask
          /\ defaultLog.Writer = switched.Writer
          /\ defaultLog.outputJSON = switched.json
          /\ At(1, Finishedb) =>
                /\ Keys(frame[1].b)
                    = <<"trace", "severity", "timestamp">>
                        \o (IF frame[1].err.nil THEN <<>> ELSE <<"error">>)
                        \o StringKeys(setLabels)
                        \o CallKeys(frame[1].labels)
                        \o <<"message">>
                /\ ~switched.done =>
                        \A i \in 1 .. Len(StringKeys(switched.labels)) :
                            \/ \E k \in 1 .. Len(StringKeys(setLabels)) :
                                    StringKeys(setLabels)[k] = StringKeys(switched.labels)[i]
                            \/ NoneOf(<<StringKeys(switched.labels)[i]>>, frame[1].b))
    /\ [][/\ defaultLog'.commonLabels # defaultLog.commonLabels
                /\ defaultLog'.outputJSON = defaultLog.outputJSON
             => /\ defaultLog'.outputMask = defaultLog.outputMask
                /\ defaultLog'.Writer = defaultLog.Writer
                /\ defaultLog'.commonLabels = writeLabels(defaultLog.outputJSON, setLabels')
          /\ defaultLog'.outputMask # defaultLog.outputMask
             => /\ defaultLog'.outputJSON = defaultLog.outputJSON
                /\ defaultLog'.commonLabels = defaultLog.commonLabels
                /\ defaultLog'.Writer = defaultLog.Writer
                /\ setLabels' = setLabels
          /\ defaultLog'.Writer # defaultLog.Writer
             => /\ defaultLog'.outputJSON = defaultLog.outputJSON
                /\ defaultLog'.commonLabels = defaultLog.commonLabels
                /\ defaultLog'.outputMask = defaultLog.outputMask
                /\ setLabels' = setLabels]_vars

\* labels were set and then replaced by other labels, with a mask and a sink
\* configured before the first and after the second SetLabels; a line was
\* written to that sink with the labels set last
C26_Witness ==
    /\ ~switched.done
    /\ switched.labels # <<>> /\ setLabels # <<>>
    /\ switched.mask = OutputMaskImportant /\ switched.Writer = "buf"
    /\ ~switched.json
    /\ pc[1] = "done"
    /\ sink["buf"] = frame[1].b /\ frame[1].b # <<>>
    /\ Contains(frame[1].b, defaultLog.commonLabels)

----------------------------------------------------------------------------
(* A thunk that logs *)

\* the place of line b among the complete lines of sink w, 0 if it is not there
PlaceOf(w, b) ==
    LET lines == CompleteLines(sink[w])
        at == {k \in 1 .. Len(lines) : lines[k] = b}
    IN  IF at = {} THEN 0 ELSE CHOOSE k \in at : \A m \in at : k <= m

\* C27: a caller that waits for the lock does not hold it, and whoever holds
\* it is between its own Lock and Unlock and can go on; while the call made
\* by a thunk runs, its caller holds the lock only between the Lock and the
\* Unlock of that call; the outer call comes to its own Lock only when the
\* thunk has returned, and then the line of the inner call, if its gate
\* let it pass, stands complete in its sink, before the line of the outer
\* call when the two go to the same sink.
C27_LoggingThunkNoDeadlock ==
    /\ mx # 0 => pc[mx] \in Holding
    /\ \A p \in Procs :
        /\ pc[p] = "lock" => mx # p
        /\ mx = p <=> pc[p] \in Holding
        /\ pc[p] \in {"lock"} \cup Holding \cup Written /\ nested[p].phase # "inner"
                /\ HasLogging(frame[p].labels)
            => nested[p].phase = "back"
        /\ nested[p].phase = "back" /\ nested[p].saved.b # <<>> =>
                LET inner == nested[p].saved
                    w == inner.l.Writer
                IN  /\ PlaceOf(w, inner.b) # 0
                    /\ pc[p] \in Written /\ frame[p].l.Writer = w =>
                            /\ PlaceOf(w, frame[p].b) # 0
                            /\ PlaceOf(w, inner.b) < PlaceOf(w, frame[p].b)

\* the thunk of a call has made a call of its own through the Log of the
\* outer call and returned; both lines are written, the inner before the
\* outer, and the lock is free
C27_Witness ==
    \E p \in Procs :
        /\ nested[p].phase = "back"
        /\ nested[p].saved.b # <<>>
        /\ nested[p].saved.l = frame[p].l
        /\ pc[p] = "done"
        /\ invoked[p] = <<5>>
        /\ PlaceOf(frame[p].l.Writer, nested[p].saved.b) # 0
        /\ PlaceOf(frame[p].l.Writer, nested[p].saved.b) < PlaceOf(frame[p].l.Writer, frame[p].b)
        /\ mx = 0

----------------------------------------------------------------------------
(* The generator of Trace-IDs *)

\* C28: at most one caller at a time is inside r.Int(), between reading the
\* state of the random source and storing the state that follows; no
\* access to the source races with another.
C28_GeneratorAccessExclusive ==
    /\ Cardinality({p \in Procs : InInt(p)}) <= 1
    /\ \A p \in Procs : ~span[p].raced

\* what holds of concurrent calls all the same: a call that raced with no
\* other gets the number that follows the state it read, cut to the width of
\* the padding
C28_UnracedCallsDrawInTurn ==
    \A p \in Procs :
        span[p].at = "done" /\ ~span[p].raced =>
            /\ ~span[p].panic
            /\ span[p].id = newSpanID(Drawn(span[p].seen))
            /\ Len(span[p].id) = Len(pad)

----------------------------------------------------------------------------
(* The storage of the caller's labels *)

\* C29: no step of a severity call changes an element of the array of the
\* slice the caller passed, within its length or beyond it.
C29_CallerStorageUntouched ==
    [][slice.arr # <<>> => slice'.arr = slice.arr]_vars

\* what holds: the elements the caller passed are never changed, a call
\* whose gate is closed stores nothing, and the array is stored into only
\* by Trace's append on entry and by the append of the sentinel
C29_PassedElementsUntouched ==
    [][slice.arr # <<>> /\ slice'.arr # slice.arr =>
            \E p \in Procs :
                /\ \/ pc[p] = "idle" /\ pc'[p] = "log" /\ frame'[p].op = "Trace"
                   \/ pc[p] = "labels" /\ pc'[p] = "message" /\ slice.view[p].len % 2 = 1
                /\ LET n == IF pc[p] = "idle" THEN Len(frame'[p].args) ELSE slice.view[p].len
                   IN  \A i \in 1 .. n : slice'.arr[i] = slice.arr[i]]_vars

====
